---- MODULE Spec2Model ----
(***************************************************************************)
(* Model of the room / game-state synchronisation engine of yja-signal     *)
(* (src/signal/hooks/useFirebaseRoom.ts, first variant, lines 1-988).      *)
(*                                                                         *)
(* One room of the shared store (participants + gameState) is mutated by   *)
(* several browser clients.  Every `await` on a store call is one step of  *)
(* the calling client, so the steps of different clients interleave.  A    *)
(* client also keeps the last snapshot that its onValue subscription       *)
(* delivered (view); the handlers that read React state (nextRound,        *)
(* skipToNextHero, checkAndReplaceHero) read that snapshot, not the store. *)
(*                                                                         *)
(* Store conventions: writing null removes a key, so a map holds only its  *)
(* non-null entries; an absent hero id is 0, an absent answer is "null",   *)
(* an absent timestamp is 0.                                               *)
(***************************************************************************)
EXTENDS Integers, Sequences, FiniteSets, TLC

\* ---- bounds of the model -------------------------------------------------
NumProcs == 2
MaxIds == 5
MaxOps == 4
QuestionPool == 1

\* ---- program constants ---------------------------------------------------
HeroCap == 3
SampleSize == 4
Points == 100
MinTeams == 2
MaxTeams == 10

Clients == {"c1", "c2", "c3"}
Procs == 1..NumProcs
Ids == 1..MaxIds
TeamOrder == <<"T1", "T2">>
Teams == {TeamOrder[i] : i \in 1..Len(TeamOrder)}
Names == {"Kim", "Lee"}
Answers == {"O", "X"}
NoId == 0
AdminId == 0 - 1
NoHero == 0
Null == "null"
NoStamp == 0
Stamp == 1
TxnUnreadBase == 0 - 1
NoClient == "none"
NoConfig == [teamCount |-> 0, questions |-> << >>]
Texts == {"q1", "q2"}

VARIABLES
  participants,   \* rooms/<id>/participants : id -> [team, name, score]
  gameState,      \* rooms/<id>/gameState
  currentUser,    \* per client: the User it acts as (NoUser before login)
  session,        \* per client: the user saved in localStorage (NoUser if none)
  view,           \* per client: last snapshot delivered by onValue
  hasAnswered,    \* per client: TraineeView's hasAnswered flag
  pc,             \* per handler instance: position inside the async handler
  loc,            \* per handler instance: the handler's local variables
  nextId,         \* next fresh participant id ('user_' + Date.now() + random)
  ops,            \* number of user operations that may still be started
  awards,         \* history: per id that got a row, the score it was created
                  \* with, the number of +100 transactions committed for it
                  \* since, its team and the id whose score it took over
  config,         \* rooms/<id>/config : [teamCount, questions] (NoConfig if absent)
  error,          \* per client: the error message shown (setError)
  returned,       \* per client: what its last Promise<boolean> operation returned
  sessionExpired, \* per client: the saved session is more than 24 hours old
  navigation,     \* history, per team: direction of the latest changeQuestion call
                  \* and the number of calls in a row that passed it
  declined        \* history, per team: a revealResult call found no hero answer
                  \* and returned

vars == <<participants, gameState, currentUser, session, view, hasAnswered,
          pc, loc, nextId, ops, awards, config, error, returned, sessionExpired,
          navigation, declined>>

\* ---- finite maps ----------------------------------------------------------
Remove(f, k) == [x \in (DOMAIN f) \ {k} |-> f[x]]

Put(f, k, v) == [x \in (DOMAIN f) \cup {k} |-> IF x = k THEN v ELSE f[x]]

EmptyMap == [x \in {} |-> 0]

\* currentScore || 0
OrZero(f, k) == IF k \in DOMAIN f THEN f[k] ELSE 0

\* heroHistory.filter(id => id === m.id).length
Count(h, m) == Cardinality({i \in 1..Len(h) : h[i] = m})

\* Variant: the team filter is missing
TeamMembersAll(ps, team) == DOMAIN ps

\* allParticipants.filter(p => p.team === team)
TeamMembers(ps, team) == {i \in DOMAIN ps : ps[i].team = team}

MinOf(S) == CHOOSE x \in S : \A y \in S : x <= y

\* ---- initial values --------------------------------------------------------
initialGameState ==
  [ isStarted |-> FALSE,
    isFinished |-> FALSE,
    currentHeroId |-> [t \in Teams |-> NoHero],
    heroAnswer |-> [t \in Teams |-> Null],
    currentQuestionIndex |-> [t \in Teams |-> 0],
    questionHistory |-> [t \in Teams |-> << >>],
    heroHistory |-> [t \in Teams |-> << >>],
    individualScores |-> EmptyMap,
    memberAnswers |-> [t \in Teams |-> EmptyMap],
    roundCount |-> [t \in Teams |-> 0],
    resultRevealed |-> [t \in Teams |-> FALSE],
    resultRevealedAt |-> [t \in Teams |-> NoStamp] ]

\* The part of a snapshot that the handlers and the screens' guards read.
Snapshot(ps, gs) ==
  [ roomConfig |-> TRUE,
    participants |-> [i \in DOMAIN ps |-> ps[i].team],
    isStarted |-> gs.isStarted,
    isFinished |-> gs.isFinished,
    currentHeroId |-> gs.currentHeroId,
    heroAnswer |-> gs.heroAnswer,
    heroHistory |-> gs.heroHistory,
    roundCount |-> gs.roundCount,
    resultRevealed |-> gs.resultRevealed,
    questionHistory |-> gs.questionHistory,
    currentQuestionIndex |-> gs.currentQuestionIndex ]

\* React state before the first snapshot (roomConfig null, initialGameState).
initialView ==
  [ roomConfig |-> FALSE,
    participants |-> EmptyMap,
    isStarted |-> FALSE,
    isFinished |-> FALSE,
    currentHeroId |-> [t \in Teams |-> NoHero],
    heroAnswer |-> [t \in Teams |-> Null],
    heroHistory |-> [t \in Teams |-> << >>],
    roundCount |-> [t \in Teams |-> 0],
    resultRevealed |-> [t \in Teams |-> FALSE],
    questionHistory |-> [t \in Teams |-> << >>],
    currentQuestionIndex |-> [t \in Teams |-> 0] ]

NoUser == [id |-> NoId, team |-> Null, name |-> Null, score |-> 0]

\* adminUser of createRoom / joinRoomAsAdmin
AdminUser == [id |-> AdminId, team |-> "Admin", name |-> "admin", score |-> 0]

NoLoc ==
  [ client |-> NoClient, team |-> Null, name |-> Null, dup |-> NoId, score |-> 0, active |-> FALSE,
    members |-> {}, history |-> << >>, round |-> 0, hero |-> NoHero,
    answer |-> Null, txn |-> EmptyMap, roster |-> EmptyMap,
    heroes |-> [t \in Teams |-> NoHero], histories |-> [t \in Teams |-> << >>],
    winners |-> {}, paid |-> {}, before |-> EmptyMap, attempts |-> 0, total |-> 0 ]

\* ---- helpers of the handlers ----------------------------------------------
InRoom(c) == currentUser[c] # NoUser

IsParticipant(c) == currentUser[c].id \in Ids

IsAdmin(c) == currentUser[c] = AdminUser

\* A user operation starts in the first free handler slot
FreeProc(p) == pc[p] = "idle" /\ \A q \in Procs : pc[q] = "idle" => p <= q

Begin(p) == FreeProc(p) /\ ops > 0

Goto(p, label) == pc' = [pc EXCEPT ![p] = label]

Finish(p) == pc' = [pc EXCEPT ![p] = "idle"] /\ loc' = [loc EXCEPT ![p] = NoLoc]

\* ---- subscription (useEffect on currentRoomId, onValue) --------------------
\* snapshot.val() of rooms/<id> is null when nothing is stored under it
RoomExists ==
  ~(config = NoConfig /\ DOMAIN participants = {} /\ gameState = initialGameState)

\* The React state after a snapshot: `if (data.config) setRoomConfig(data.config)`
\* keeps the previous roomConfig when the value has no config
Rendered(c) ==
  [Snapshot(participants, gameState) EXCEPT
     !.roomConfig = IF config # NoConfig THEN TRUE ELSE view[c].roomConfig]

\* The store pushes the current room value; intermediate values may be skipped.
\* TraineeView resets hasAnswered whenever the hero answer it sees is null.
Sync(c) ==
  /\ InRoom(c)
  /\ RoomExists
  /\ view[c] # Rendered(c)
  /\ view' = [view EXCEPT ![c] = Rendered(c)]
  /\ hasAnswered' = [hasAnswered EXCEPT ![c] =
        IF IsParticipant(c) /\ gameState.heroAnswer[currentUser[c].team] = Null
        THEN FALSE ELSE @]
  /\ UNCHANGED <<participants, gameState, currentUser, session, pc, loc, nextId, ops, awards>>
  /\ UNCHANGED <<config, error, returned, sessionExpired>>
  /\ UNCHANGED <<navigation, declined>>

\* The snapshot of a room that is gone: the hook forgets the room and the user
\* (the saved session is not touched)
SyncRoomGone(c) ==
  /\ InRoom(c)
  /\ ~RoomExists
  /\ currentUser' = [currentUser EXCEPT ![c] = NoUser]
  /\ view' = [view EXCEPT ![c] = initialView]
  /\ hasAnswered' = [hasAnswered EXCEPT ![c] = FALSE]
  /\ UNCHANGED <<participants, gameState, session, pc, loc, nextId, ops, awards,
                 config, error, returned, sessionExpired>>
  /\ UNCHANGED <<navigation, declined>>

\* ---- joinRoomAsAdmin --------------------------------------------------------
JoinRoomAsAdmin(c) ==
  /\ ops > 0
  /\ ~InRoom(c)
  /\ currentUser' = [currentUser EXCEPT ![c] = AdminUser]
  /\ ops' = ops - 1
  /\ UNCHANGED <<participants, gameState, session, view, hasAnswered, pc, loc, nextId, awards>>
  /\ UNCHANGED <<config, error, returned, sessionExpired>>
  /\ UNCHANGED <<navigation, declined>>

\* ---- joinRoom ---------------------------------------------------------------
\* existingParticipants.find(p => p.team === userData.team && p.name === userData.name)
Duplicates(ps, team, name) == {i \in DOMAIN ps : ps[i].team = team /\ ps[i].name = name}

\* Variant: a rejoining user starts from zero
InheritedScoreNone(scores, dup) == 0

\* newUser.score: the duplicate's individualScores entry of the room value read
InheritedScore(scores, dup) == IF dup = NoId THEN 0 ELSE OrZero(scores, dup)

\* await get(roomRef) and everything computed from roomData
JoinRoomRead(c, p, name, team) ==
  /\ Begin(p)
  /\ ~InRoom(c)
  /\ nextId <= MaxIds
  /\ \E dup \in IF Duplicates(participants, team, name) = {} THEN {NoId}
                ELSE Duplicates(participants, team, name) :
       /\ loc' = [loc EXCEPT ![p] = [NoLoc EXCEPT
                    !.client = c, !.team = team, !.name = name, !.dup = dup,
                    !.score = InheritedScore(gameState.individualScores, dup),
                    !.active = gameState.isStarted /\ ~gameState.isFinished]]
       /\ Goto(p, IF dup = NoId THEN "join_setRow" ELSE "join_rmRow")
  /\ ops' = ops - 1
  /\ UNCHANGED <<participants, gameState, currentUser, session, view, hasAnswered,
                 nextId, awards>>
  /\ UNCHANGED <<config, error, returned, sessionExpired>>
  /\ UNCHANGED <<navigation, declined>>

\* await remove(duplicateRef)
JoinRoomRemoveRow(p) ==
  /\ pc[p] = "join_rmRow"
  /\ participants' = Remove(participants, loc[p].dup)
  /\ Goto(p, "join_rmAns")
  /\ UNCHANGED <<gameState, currentUser, session, view, hasAnswered, loc, nextId, ops, awards>>
  /\ UNCHANGED <<config, error, returned, sessionExpired>>
  /\ UNCHANGED <<navigation, declined>>

\* await remove(duplicateAnswerRef)
JoinRoomRemoveAnswer(p) ==
  /\ pc[p] = "join_rmAns"
  /\ gameState' = [gameState EXCEPT !.memberAnswers[loc[p].team] = Remove(@, loc[p].dup)]
  /\ Goto(p, "join_setRow")
  /\ UNCHANGED <<participants, currentUser, session, view, hasAnswered, loc, nextId, ops, awards>>
  /\ UNCHANGED <<config, error, returned, sessionExpired>>
  /\ UNCHANGED <<navigation, declined>>

\* newUser gets a fresh id; await set(participantRef, newUser)
JoinRoomSetRow(p) ==
  /\ pc[p] = "join_setRow"
  /\ participants' = Put(participants, nextId,
        [team |-> loc[p].team, name |-> loc[p].name, score |-> loc[p].score])
  /\ loc' = [loc EXCEPT ![p].hero = nextId]
  /\ nextId' = nextId + 1
  /\ awards' = Put(awards, nextId, [initial |-> loc[p].score, count |-> 0,
                                    team |-> loc[p].team, prev |-> loc[p].dup])
  /\ Goto(p, "join_setScore")
  /\ UNCHANGED <<gameState, currentUser, session, view, hasAnswered, ops>>
  /\ UNCHANGED <<config, error, returned, sessionExpired>>
  /\ UNCHANGED <<navigation, declined>>

\* Variant: the score entry of the new id is not written
JoinRoomNoScore(p) ==
  /\ pc[p] = "join_setScore"
  /\ currentUser' = [currentUser EXCEPT ![loc[p].client] =
        [id |-> loc[p].hero, team |-> loc[p].team, name |-> loc[p].name,
         score |-> loc[p].score]]
  /\ session' = [session EXCEPT ![loc[p].client] = currentUser'[loc[p].client]]
  /\ Finish(p)
  /\ UNCHANGED <<participants, gameState, view, hasAnswered, nextId, ops, awards, config,
                 error, returned, sessionExpired>>
  /\ UNCHANGED <<navigation, declined>>

\* await set(scoreRef, newUser.score); when the game was active in roomData also
\* set(memberAnswerRef, null), which stores nothing; then saveSession,
\* setCurrentRoomId, setCurrentUser.
JoinRoomSetScore(p) ==
  /\ pc[p] = "join_setScore"
  /\ gameState' = [gameState EXCEPT
        !.individualScores = Put(@, loc[p].hero, loc[p].score),
        !.memberAnswers[loc[p].team] =
            IF loc[p].active THEN Remove(@, loc[p].hero) ELSE @]
  /\ currentUser' = [currentUser EXCEPT ![loc[p].client] =
        [id |-> loc[p].hero, team |-> loc[p].team, name |-> loc[p].name,
         score |-> loc[p].score]]
  /\ session' = [session EXCEPT ![loc[p].client] = currentUser'[loc[p].client]]
  /\ sessionExpired' = [sessionExpired EXCEPT ![loc[p].client] = FALSE]
  /\ error' = [error EXCEPT ![loc[p].client] = Null]
  /\ returned' = [returned EXCEPT ![loc[p].client] = "true"]
  /\ Finish(p)
  /\ UNCHANGED <<participants, view, hasAnswered, nextId, ops, awards, config>>
  /\ UNCHANGED <<navigation, declined>>

\* set(scoreRef, ...) is rejected: the catch block of joinRoom reports it and
\* returns false; the row written before stays
JoinRoomSetScoreFails(p) ==
  /\ pc[p] = "join_setScore"
  /\ error' = [error EXCEPT ![loc[p].client] = "joinFailed"]
  /\ returned' = [returned EXCEPT ![loc[p].client] = "false"]
  /\ Finish(p)
  /\ UNCHANGED <<participants, gameState, currentUser, session, view, hasAnswered,
                 nextId, ops, awards, config, sessionExpired>>
  /\ UNCHANGED <<navigation, declined>>

\* ---- leaveRoom --------------------------------------------------------------
\* Variant: the leaver's score entry is removed with the row
LeaveRoomWithScore(c) ==
  /\ ops > 0
  /\ IsParticipant(c)
  /\ participants' = Remove(participants, currentUser[c].id)
  /\ gameState' = [gameState EXCEPT !.individualScores = Remove(@, currentUser[c].id)]
  /\ session' = [session EXCEPT ![c] = NoUser]
  /\ currentUser' = [currentUser EXCEPT ![c] = NoUser]
  /\ view' = [view EXCEPT ![c] = initialView]
  /\ hasAnswered' = [hasAnswered EXCEPT ![c] = FALSE]
  /\ sessionExpired' = [sessionExpired EXCEPT ![c] = FALSE]
  /\ ops' = ops - 1
  /\ UNCHANGED <<pc, loc, nextId, awards, config, error, returned>>
  /\ UNCHANGED <<navigation, declined>>

LeaveRoom(c) ==
  /\ ops > 0
  /\ IsParticipant(c)
  /\ participants' = Remove(participants, currentUser[c].id)
  /\ session' = [session EXCEPT ![c] = NoUser]
  /\ currentUser' = [currentUser EXCEPT ![c] = NoUser]
  /\ view' = [view EXCEPT ![c] = initialView]
  /\ hasAnswered' = [hasAnswered EXCEPT ![c] = FALSE]
  /\ sessionExpired' = [sessionExpired EXCEPT ![c] = FALSE]
  /\ ops' = ops - 1
  /\ UNCHANGED <<gameState, pc, loc, nextId, awards>>
  /\ UNCHANGED <<config, error, returned>>
  /\ UNCHANGED <<navigation, declined>>

\* ---- question sampler (generateQuestionHistory) -----------------------------
\* All results the rejection loop can return: it keeps drawing an index and
\* appends it unless already used, until 4 indices or the whole pool are taken.
RECURSIVE SampleFrom(_, _)
SampleFrom(indices, totalQuestions) ==
  IF Len(indices) < SampleSize /\ Len(indices) < totalQuestions
  THEN UNION { SampleFrom(Append(indices, idx), totalQuestions) :
                 idx \in (0..(totalQuestions - 1)) \ {indices[i] : i \in 1..Len(indices)} }
  ELSE {indices}

generateQuestionHistory(totalQuestions) == SampleFrom(<< >>, totalQuestions)

\* generateQuestionHistory(questions.length) for the room's question list
QuestionSamples == generateQuestionHistory(QuestionPool)

\* ---- startGame --------------------------------------------------------------
\* await get(roomRef): allParticipants
StartGameRead(c, p) ==
  /\ Begin(p)
  /\ IsAdmin(c)
  /\ view[c].roomConfig
  /\ ~view[c].isStarted /\ ~view[c].isFinished
  /\ DOMAIN view[c].participants # {}
  /\ loc' = [loc EXCEPT ![p] = [NoLoc EXCEPT
                !.client = c,
                !.roster = [i \in DOMAIN participants |-> participants[i].team]]]
  /\ Goto(p, "start_update")
  /\ ops' = ops - 1
  /\ UNCHANGED <<participants, gameState, currentUser, session, view, hasAnswered,
                 nextId, awards>>
  /\ UNCHANGED <<config, error, returned, sessionExpired>>
  /\ UNCHANGED <<navigation, declined>>

\* Variant: the team filter is missing
RosterAll(roster, team) == DOMAIN roster

\* participants.filter(p => p.team === teamName) on a roster id -> team
RosterMembers(roster, team) == {i \in DOMAIN roster : roster[i] = team}

\* await update(gameStateRef, {...}): resultRevealed, resultRevealedAt and
\* individualScores are not among the keys written.
StartGameUpdate(p) ==
  /\ pc[p] = "start_update"
  /\ \E heroes \in [Teams -> Ids \cup {NoHero}],
        questions \in [Teams -> QuestionSamples \cup {<< >>}] :
       /\ \A t \in Teams :
            IF RosterMembers(loc[p].roster, t) # {}
            THEN /\ heroes[t] \in RosterMembers(loc[p].roster, t)
                 /\ questions[t] \in QuestionSamples
            ELSE heroes[t] = NoHero /\ questions[t] = << >>
       /\ gameState' = [gameState EXCEPT
            !.isStarted = TRUE,
            !.isFinished = FALSE,
            !.currentHeroId = heroes,
            !.heroAnswer = [t \in Teams |-> Null],
            !.currentQuestionIndex = [t \in Teams |-> 0],
            !.questionHistory = questions,
            !.heroHistory = [t \in Teams |->
                IF heroes[t] = NoHero THEN << >> ELSE <<heroes[t]>>],
            !.memberAnswers = [t \in Teams |-> EmptyMap],
            !.roundCount = [t \in Teams |-> 0]]
  /\ Finish(p)
  /\ UNCHANGED <<participants, currentUser, session, view, hasAnswered, nextId, ops, awards>>
  /\ UNCHANGED <<config, error, returned, sessionExpired>>
  /\ UNCHANGED <<navigation, declined>>

\* ---- setHeroAnswer ----------------------------------------------------------
\* TraineeView renders the game card only while the game is started
GameScreen(c) ==
  /\ IsParticipant(c)
  /\ view[c].roomConfig /\ view[c].isStarted /\ ~view[c].isFinished

\* isHero = currentHeroId[user.team] === user.id
HeroScreen(c) ==
  GameScreen(c) /\ view[c].currentHeroId[currentUser[c].team] = currentUser[c].id

MemberScreen(c) ==
  GameScreen(c) /\ view[c].currentHeroId[currentUser[c].team] # currentUser[c].id

\* retryOperation(operation, maxRetries, delayMs) as submitMemberAnswer calls it
MaxRetries == 3

MayRetryOnceMore(attempts) == attempts <= MaxRetries

\* for (let i = 0; i < maxRetries; i++): after `attempts` failed attempts the
\* loop makes another one while the count is below maxRetries
MayRetry(attempts) == attempts < MaxRetries

\* submitMemberAnswer whose first set() is rejected: retryOperation catches the
\* error, keeps it as lastError and waits delayMs before the next attempt
SubmitMemberAnswerRejected(c, p, answer) ==
  /\ Begin(p)
  /\ MemberScreen(c)
  /\ view[c].heroAnswer[currentUser[c].team] # Null
  /\ ~view[c].resultRevealed[currentUser[c].team]
  /\ ~hasAnswered[c]
  /\ hasAnswered' = [hasAnswered EXCEPT ![c] = TRUE]
  /\ loc' = [loc EXCEPT ![p] = [NoLoc EXCEPT
                !.client = c, !.team = currentUser[c].team, !.hero = currentUser[c].id,
                !.answer = answer, !.attempts = 1]]
  /\ Goto(p, "submit_retry")
  /\ ops' = ops - 1
  /\ UNCHANGED <<participants, gameState, currentUser, session, view, nextId, awards>>
  /\ UNCHANGED <<config, error, returned, sessionExpired>>
  /\ UNCHANGED <<navigation, declined>>

\* the next attempt of the loop succeeds: return await operation()
RetryAttemptSucceeds(p) ==
  /\ pc[p] = "submit_retry"
  /\ MayRetry(loc[p].attempts)
  /\ gameState' = [gameState EXCEPT
        !.memberAnswers[loc[p].team] = Put(@, loc[p].hero, loc[p].answer)]
  /\ Finish(p)
  /\ UNCHANGED <<participants, currentUser, session, view, hasAnswered, nextId, ops, awards>>
  /\ UNCHANGED <<config, error, returned, sessionExpired>>
  /\ UNCHANGED <<navigation, declined>>

\* the next attempt of the loop is rejected as well
RetryAttemptFails(p) ==
  /\ pc[p] = "submit_retry"
  /\ MayRetry(loc[p].attempts)
  /\ loc' = [loc EXCEPT ![p].attempts = @ + 1]
  /\ UNCHANGED <<participants, gameState, currentUser, session, view, hasAnswered, pc,
                 nextId, ops, awards>>
  /\ UNCHANGED <<config, error, returned, sessionExpired>>
  /\ UNCHANGED <<navigation, declined>>

\* the loop is over: throw lastError, caught by submitMemberAnswer's setError
RetryGivesUp(p) ==
  /\ pc[p] = "submit_retry"
  /\ ~MayRetry(loc[p].attempts)
  /\ error' = [error EXCEPT ![loc[p].client] = "submitFailed"]
  /\ Finish(p)
  /\ UNCHANGED <<participants, gameState, currentUser, session, view, hasAnswered,
                 nextId, ops, awards>>
  /\ UNCHANGED <<config, returned, sessionExpired>>
  /\ UNCHANGED <<navigation, declined>>

\* O/X buttons of the hero (shown while !heroAnswer); await get(participants)
SetHeroAnswerRead(c, p, answer) ==
  /\ Begin(p)
  /\ HeroScreen(c)
  /\ view[c].heroAnswer[currentUser[c].team] = Null
  /\ loc' = [loc EXCEPT ![p] = [NoLoc EXCEPT
                !.client = c, !.team = currentUser[c].team, !.answer = answer,
                !.members = TeamMembers(participants, currentUser[c].team)]]
  /\ Goto(p, "hero_update")
  /\ ops' = ops - 1
  /\ UNCHANGED <<participants, gameState, currentUser, session, view, hasAnswered,
                 nextId, awards>>
  /\ UNCHANGED <<config, error, returned, sessionExpired>>
  /\ UNCHANGED <<navigation, declined>>

\* Variant: only the answer is written, the round state is left as it is
HeroAnswerOnly(gs, team, answer, members) == [gs EXCEPT !.heroAnswer[team] = answer]

\* The multi-path update of setHeroAnswer applied to the gameState
HeroAnswerUpdates(gs, team, answer, members) ==
  [gs EXCEPT
     !.heroAnswer[team] = answer,
     !.resultRevealed[team] = FALSE,
     !.resultRevealedAt[team] = NoStamp,
     !.memberAnswers[team] = [u \in (DOMAIN @) \ members |-> @[u]]]

\* await update(roomRef, updates)
SetHeroAnswerUpdate(p) ==
  /\ pc[p] = "hero_update"
  /\ gameState' = HeroAnswerUpdates(gameState, loc[p].team, loc[p].answer, loc[p].members)
  /\ Finish(p)
  /\ UNCHANGED <<participants, currentUser, session, view, hasAnswered, nextId, ops, awards>>
  /\ UNCHANGED <<config, error, returned, sessionExpired>>
  /\ UNCHANGED <<navigation, declined>>

\* update() of setHeroAnswer is rejected: the catch block reports it
SetHeroAnswerUpdateFails(p) ==
  /\ pc[p] = "hero_update"
  /\ error' = [error EXCEPT ![loc[p].client] = "heroAnswerFailed"]
  /\ Finish(p)
  /\ UNCHANGED <<participants, gameState, currentUser, session, view, hasAnswered,
                 nextId, ops, awards>>
  /\ UNCHANGED <<config, returned, sessionExpired>>
  /\ UNCHANGED <<navigation, declined>>

\* ---- submitMemberAnswer -----------------------------------------------------
\* handleAnswer: once per round (hasAnswered), with the caller's own id and team
SubmitMemberAnswer(c, answer) ==
  /\ ops > 0
  /\ MemberScreen(c)
  /\ view[c].heroAnswer[currentUser[c].team] # Null
  /\ ~view[c].resultRevealed[currentUser[c].team]
  /\ ~hasAnswered[c]
  /\ hasAnswered' = [hasAnswered EXCEPT ![c] = TRUE]
  /\ gameState' = [gameState EXCEPT
        !.memberAnswers[currentUser[c].team] = Put(@, currentUser[c].id, answer)]
  /\ ops' = ops - 1
  /\ UNCHANGED <<participants, currentUser, session, view, pc, loc, nextId, awards>>
  /\ UNCHANGED <<config, error, returned, sessionExpired>>
  /\ UNCHANGED <<navigation, declined>>

\* ---- revealResult ------------------------------------------------------------
\* "reveal" button of the hero; await get(heroAnswerRef); `if (!heroAnswer) return`
\* (before records the scores stored when the call began)
RevealReadHeroUnchecked(c, p) ==
  /\ Begin(p)
  /\ HeroScreen(c)
  /\ view[c].heroAnswer[currentUser[c].team] # Null
  /\ ~view[c].resultRevealed[currentUser[c].team]
  /\ ops' = ops - 1
  /\ loc' = [loc EXCEPT ![p] = [NoLoc EXCEPT
                !.client = c, !.team = currentUser[c].team,
                !.answer = gameState.heroAnswer[currentUser[c].team],
                !.before = gameState.individualScores]]
  /\ Goto(p, "reveal_answers")
  /\ UNCHANGED <<participants, gameState, currentUser, session, view, hasAnswered,
                 nextId, awards>>
  /\ UNCHANGED <<config, error, returned, sessionExpired>>
  /\ UNCHANGED <<navigation, declined>>

RevealReadHero(c, p) ==
  /\ Begin(p)
  /\ HeroScreen(c)
  /\ view[c].heroAnswer[currentUser[c].team] # Null
  /\ ~view[c].resultRevealed[currentUser[c].team]
  /\ ops' = ops - 1
  /\ IF gameState.heroAnswer[currentUser[c].team] = Null
     THEN /\ UNCHANGED <<pc, loc>>
          /\ declined' = [declined EXCEPT ![currentUser[c].team] = TRUE]
     ELSE /\ loc' = [loc EXCEPT ![p] = [NoLoc EXCEPT
                       !.client = c, !.team = currentUser[c].team,
                       !.answer = gameState.heroAnswer[currentUser[c].team],
                       !.before = gameState.individualScores]]
          /\ Goto(p, "reveal_answers")
          /\ UNCHANGED declined
  /\ UNCHANGED <<participants, gameState, currentUser, session, view, hasAnswered,
                 nextId, awards>>
  /\ UNCHANGED <<config, error, returned, sessionExpired>>
  /\ UNCHANGED navigation

\* Variant: everybody who guessed is awarded
WinnersAll(memberAnswers, heroAnswer) == DOMAIN memberAnswers

\* The members a reveal awards: Object.entries(memberAnswers) with answer === heroAnswer
Winners(memberAnswers, heroAnswer) ==
  {u \in DOMAIN memberAnswers : memberAnswers[u] = heroAnswer}

\* await get(memberAnswersRef); one runTransaction is started per winner
\* (winners and paid record which awards this reveal owes and has committed)
RevealReadAnswers(p) ==
  /\ pc[p] = "reveal_answers"
  /\ loc' = [loc EXCEPT
        ![p].txn = [u \in Winners(gameState.memberAnswers[loc[p].team], loc[p].answer)
                      |-> TxnUnreadBase],
        ![p].winners = Winners(gameState.memberAnswers[loc[p].team], loc[p].answer)]
  /\ Goto(p, "reveal_scores")
  /\ UNCHANGED <<participants, gameState, currentUser, session, view, hasAnswered,
                 nextId, ops, awards>>
  /\ UNCHANGED <<config, error, returned, sessionExpired>>
  /\ UNCHANGED <<navigation, declined>>

\* runTransaction, optimistic part: the update function is run on the value
\* the transaction currently knows for the score
TransactionRead(p, u) ==
  /\ pc[p] = "reveal_scores"
  /\ u \in DOMAIN loc[p].txn
  /\ loc[p].txn[u] = TxnUnreadBase
  /\ loc' = [loc EXCEPT ![p].txn[u] = OrZero(gameState.individualScores, u)]
  /\ UNCHANGED <<participants, gameState, currentUser, session, view, hasAnswered,
                 pc, nextId, ops, awards>>
  /\ UNCHANGED <<config, error, returned, sessionExpired>>
  /\ UNCHANGED <<navigation, declined>>

\* Variant: a plain read-then-set, which the store accepts whatever it holds
TransactionAcceptsAny(stored, base) == TRUE

\* The store accepts a transaction's write only if the value it was computed
\* from is still the stored one
TransactionAccepts(stored, base) == stored = base

\* (currentScore) => (currentScore || 0) + 100
ScoreUpdate(currentScore) == currentScore + Points

\* runTransaction, commit part: write-if-unchanged, otherwise run again
TransactionCommit(p, u) ==
  /\ pc[p] = "reveal_scores"
  /\ u \in DOMAIN loc[p].txn
  /\ loc[p].txn[u] # TxnUnreadBase
  /\ IF TransactionAccepts(OrZero(gameState.individualScores, u), loc[p].txn[u])
     THEN /\ gameState' = [gameState EXCEPT
                !.individualScores = Put(@, u, ScoreUpdate(loc[p].txn[u]))]
          /\ loc' = [loc EXCEPT ![p].txn = Remove(@, u), ![p].paid = @ \cup {u}]
          /\ awards' = IF u \in DOMAIN awards
                       THEN [awards EXCEPT ![u].count = @ + 1]
                       ELSE Put(awards, u, [initial |-> 0, count |-> 1,
                                            team |-> Null, prev |-> NoId])
     ELSE /\ loc' = [loc EXCEPT ![p].txn[u] = TxnUnreadBase]
          /\ UNCHANGED <<gameState, awards>>
  /\ UNCHANGED <<participants, currentUser, session, view, hasAnswered, pc, nextId, ops>>
  /\ UNCHANGED <<config, error, returned, sessionExpired>>
  /\ UNCHANGED <<navigation, declined>>

\* Variant: the flag is written without awaiting the transactions
AllSettledNoWait(txn) == TRUE

\* `await Promise.all(scorePromises)` resolves when no transaction is left
AllSettled(txn) == DOMAIN txn = {}

\* after Promise.all: await update(roomRef, {resultRevealed, resultRevealedAt})
RevealWriteFlag(p) ==
  /\ pc[p] = "reveal_scores"
  /\ AllSettled(loc[p].txn)
  /\ gameState' = [gameState EXCEPT
        !.resultRevealed[loc[p].team] = TRUE,
        !.resultRevealedAt[loc[p].team] = Stamp]
  /\ Finish(p)
  /\ UNCHANGED <<participants, currentUser, session, view, hasAnswered, nextId, ops, awards>>
  /\ UNCHANGED <<config, error, returned, sessionExpired>>
  /\ UNCHANGED <<navigation, declined>>

\* update() of revealResult is rejected: the catch block reports it
RevealWriteFlagFails(p) ==
  /\ pc[p] = "reveal_scores"
  /\ AllSettled(loc[p].txn)
  /\ error' = [error EXCEPT ![loc[p].client] = "revealFailed"]
  /\ Finish(p)
  /\ UNCHANGED <<participants, gameState, currentUser, session, view, hasAnswered,
                 nextId, ops, awards>>
  /\ UNCHANGED <<config, returned, sessionExpired>>
  /\ UNCHANGED <<navigation, declined>>

\* ---- hero rotation ------------------------------------------------------------
\* Variant: any member may be picked, whatever it served
RotationCandidatesAny(members, heroHistory) == members

\* The tie-break set of nextRound / skipToNextHero: the least-served among the
\* members below the cap, or among all of them once everybody reached the cap
RotationCandidates(members, heroHistory) ==
  LET eligibleMembers == {m \in members : Count(heroHistory, m) < HeroCap}
      pool == IF eligibleMembers # {} THEN eligibleMembers ELSE members
      minCount == MinOf({Count(heroHistory, m) : m \in pool})
  IN  {m \in pool : Count(heroHistory, m) = minCount}

\* Variant: the reveal state of the finished round is not reset
RotationUpdatesKeepReveal(gs, team, nextHero, newQuestions, heroHistory, round) ==
  [gs EXCEPT
     !.currentHeroId[team] = nextHero,
     !.heroAnswer[team] = Null,
     !.questionHistory[team] = newQuestions,
     !.currentQuestionIndex[team] = 0,
     !.memberAnswers[team] = EmptyMap,
     !.roundCount[team] = round + 1,
     !.heroHistory[team] = Append(heroHistory, nextHero)]

\* The multi-path update of nextRound / skipToNextHero applied to the gameState
RotationUpdates(gs, team, nextHero, newQuestions, heroHistory, round) ==
  [gs EXCEPT
     !.currentHeroId[team] = nextHero,
     !.heroAnswer[team] = Null,
     !.questionHistory[team] = newQuestions,
     !.currentQuestionIndex[team] = 0,
     !.memberAnswers[team] = EmptyMap,
     !.roundCount[team] = round + 1,
     !.resultRevealed[team] = FALSE,
     !.resultRevealedAt[team] = NoStamp,
     !.heroHistory[team] = Append(heroHistory, nextHero)]

\* "next hero" button (shown once the result is revealed); await
\* get(participants); heroHistory and roundCount come from the gameState of the
\* render that created the callback
NextRoundRead(c, p) ==
  /\ Begin(p)
  /\ GameScreen(c)
  /\ view[c].heroAnswer[currentUser[c].team] # Null
  /\ view[c].resultRevealed[currentUser[c].team]
  /\ ops' = ops - 1
  /\ IF TeamMembers(participants, currentUser[c].team) = {}
     THEN UNCHANGED <<pc, loc>>
     ELSE /\ loc' = [loc EXCEPT ![p] = [NoLoc EXCEPT
                       !.client = c, !.team = currentUser[c].team,
                       !.members = TeamMembers(participants, currentUser[c].team),
                       !.history = view[c].heroHistory[currentUser[c].team],
                       !.round = view[c].roundCount[currentUser[c].team]]]
          /\ Goto(p, "next_update")
  /\ UNCHANGED <<participants, gameState, currentUser, session, view, hasAnswered,
                 nextId, awards>>
  /\ UNCHANGED <<config, error, returned, sessionExpired>>
  /\ UNCHANGED <<navigation, declined>>

\* await update(roomRef, updates)
NextRoundUpdate(p) ==
  /\ pc[p] = "next_update"
  /\ \E nextHero \in RotationCandidates(loc[p].members, loc[p].history),
        newQuestions \in QuestionSamples :
       gameState' = RotationUpdates(gameState, loc[p].team, nextHero, newQuestions,
                                    loc[p].history, loc[p].round)
  /\ Finish(p)
  /\ UNCHANGED <<participants, currentUser, session, view, hasAnswered, nextId, ops, awards>>
  /\ UNCHANGED <<config, error, returned, sessionExpired>>
  /\ UNCHANGED <<navigation, declined>>

\* update() of nextRound is rejected: nextRound has no try/catch, the promise
\* it returned is rejected and nothing else happens
NextRoundUpdateFails(p) ==
  /\ pc[p] = "next_update"
  /\ Finish(p)
  /\ UNCHANGED <<participants, gameState, currentUser, session, view, hasAnswered,
                 nextId, ops, awards>>
  /\ UNCHANGED <<config, error, returned, sessionExpired>>
  /\ UNCHANGED <<navigation, declined>>

\* skipToNextHero: the hero excluded is the currentHeroId of the callback's gameState
SkipCandidates(members, heroHistory, currentHeroId) ==
  RotationCandidates(members \ {currentHeroId}, heroHistory)

\* await get(participants); returns when the team has nobody but that hero
SkipToNextHeroRead(c, p, team) ==
  /\ Begin(p)
  /\ IsAdmin(c)
  /\ view[c].roomConfig
  /\ ops' = ops - 1
  /\ IF TeamMembers(participants, team) \ {view[c].currentHeroId[team]} = {}
     THEN UNCHANGED <<pc, loc>>
     ELSE /\ loc' = [loc EXCEPT ![p] = [NoLoc EXCEPT
                       !.client = c, !.team = team,
                       !.members = TeamMembers(participants, team),
                       !.hero = view[c].currentHeroId[team],
                       !.history = view[c].heroHistory[team],
                       !.round = view[c].roundCount[team]]]
          /\ Goto(p, "skip_update")
  /\ UNCHANGED <<participants, gameState, currentUser, session, view, hasAnswered,
                 nextId, awards>>
  /\ UNCHANGED <<config, error, returned, sessionExpired>>
  /\ UNCHANGED <<navigation, declined>>

SkipToNextHeroUpdate(p) ==
  /\ pc[p] = "skip_update"
  /\ \E nextHero \in SkipCandidates(loc[p].members, loc[p].history, loc[p].hero),
        newQuestions \in QuestionSamples :
       gameState' = RotationUpdates(gameState, loc[p].team, nextHero, newQuestions,
                                    loc[p].history, loc[p].round)
  /\ Finish(p)
  /\ UNCHANGED <<participants, currentUser, session, view, hasAnswered, nextId, ops, awards>>
  /\ UNCHANGED <<config, error, returned, sessionExpired>>
  /\ UNCHANGED <<navigation, declined>>

\* ---- absent-hero reconciler (checkAndReplaceHero) ----------------------------
\* heroId && teamMembers.length > 0 && !teamMembers.find(m => m.id === heroId)
HeroAbsent(roster, heroes, team) ==
  /\ heroes[team] # NoHero
  /\ RosterMembers(roster, team) # {}
  /\ heroes[team] \notin RosterMembers(roster, team)

\* Variant: any remaining member may be picked
ReplacementAny(members, heroHistory) == members

\* The members with the minimum count in the history (no cap is applied here)
ReplacementCandidates(members, heroHistory) ==
  LET minCount == MinOf({Count(heroHistory, m) : m \in members})
  IN  {m \in members : Count(heroHistory, m) = minCount}

\* Variant: the repair resets the round but does not store the new hero
ReplacementUpdatesNoHero(gs, team, nextHero, indices) ==
  [gs EXCEPT
     !.heroAnswer[team] = Null,
     !.questionHistory[team] = indices,
     !.currentQuestionIndex[team] = 0,
     !.memberAnswers[team] = EmptyMap,
     !.resultRevealed[team] = FALSE,
     !.resultRevealedAt[team] = NoStamp]

\* The multi-path update of the repair: roundCount and heroHistory are not written
ReplacementUpdates(gs, team, nextHero, indices) ==
  [gs EXCEPT
     !.currentHeroId[team] = nextHero,
     !.heroAnswer[team] = Null,
     !.questionHistory[team] = indices,
     !.currentQuestionIndex[team] = 0,
     !.memberAnswers[team] = EmptyMap,
     !.resultRevealed[team] = FALSE,
     !.resultRevealedAt[team] = NoStamp]

TeamIndex(team) == CHOOSE i \in 1..Len(TeamOrder) : TeamOrder[i] = team

\* The teams the loop still has to repair after position `from`, in key order
TeamsToRepair(roster, heroes, from) ==
  {t \in Teams : TeamIndex(t) > from /\ HeroAbsent(roster, heroes, t)}

FirstTeam(S) == CHOOSE t \in S : \A u \in S : TeamIndex(t) <= TeamIndex(u)

\* One `await update(roomRef, updates)` of the loop, computed from the snapshot
\* (roster, heroes, histories) that the timer callback closed over
RepairStep(c, p, roster, heroes, histories, from) ==
  LET team == FirstTeam(TeamsToRepair(roster, heroes, from))
  IN  /\ \E nextHero \in ReplacementCandidates(RosterMembers(roster, team), histories[team]),
            indices \in QuestionSamples :
           gameState' = ReplacementUpdates(gameState, team, nextHero, indices)
      /\ IF TeamsToRepair(roster, heroes, TeamIndex(team)) = {}
         THEN Finish(p)
         ELSE /\ loc' = [loc EXCEPT ![p] = [NoLoc EXCEPT
                          !.client = c, !.team = team, !.roster = roster,
                          !.heroes = heroes, !.histories = histories]]
              /\ Goto(p, "check_next")

\* setTimeout(checkAndReplaceHero, 1000) fires: first repair of the loop
CheckAndReplaceHero(c, p) ==
  /\ FreeProc(p)
  /\ InRoom(c)
  /\ view[c].roomConfig /\ view[c].isStarted /\ ~view[c].isFinished
  /\ TeamsToRepair(view[c].participants, view[c].currentHeroId, 0) # {}
  /\ RepairStep(c, p, view[c].participants, view[c].currentHeroId, view[c].heroHistory, 0)
  /\ UNCHANGED <<participants, currentUser, session, view, hasAnswered, nextId, ops, awards>>
  /\ UNCHANGED <<config, error, returned, sessionExpired>>
  /\ UNCHANGED <<navigation, declined>>

\* the loop goes on with the next team after the previous update resolved
CheckAndReplaceNext(p) ==
  /\ pc[p] = "check_next"
  /\ RepairStep(loc[p].client, p, loc[p].roster, loc[p].heroes, loc[p].histories,
                TeamIndex(loc[p].team))
  /\ UNCHANGED <<participants, currentUser, session, view, hasAnswered, nextId, ops, awards>>
  /\ UNCHANGED <<config, error, returned, sessionExpired>>
  /\ UNCHANGED <<navigation, declined>>


\* ---- stopGame ------------------------------------------------------------------
\* Variant: only isFinished is written
StopGameFlagOnly(c) ==
  /\ ops > 0
  /\ IsAdmin(c)
  /\ view[c].isStarted \/ view[c].isFinished
  /\ gameState' = [gameState EXCEPT !.isFinished = TRUE]
  /\ ops' = ops - 1
  /\ UNCHANGED <<participants, currentUser, session, view, hasAnswered, pc, loc, nextId,
                 awards, config, error, returned, sessionExpired>>
  /\ UNCHANGED <<navigation, declined>>

\* "end game" button of the admin (shown while the game is started or finished)
StopGame(c) ==
  /\ ops > 0
  /\ IsAdmin(c)
  /\ view[c].isStarted \/ view[c].isFinished
  /\ gameState' = [gameState EXCEPT !.isStarted = FALSE, !.isFinished = TRUE]
  /\ ops' = ops - 1
  /\ UNCHANGED <<participants, currentUser, session, view, hasAnswered, pc, loc, nextId,
                 awards, config, error, returned, sessionExpired>>
  /\ UNCHANGED <<navigation, declined>>

\* ---- resetRoom -----------------------------------------------------------------
\* Variant: the listed keys are cleared one by one, the others are left alone
ResetListedKeys(gs) ==
  [gs EXCEPT
     !.isStarted = FALSE,
     !.isFinished = FALSE,
     !.currentHeroId = [t \in Teams |-> NoHero],
     !.heroHistory = [t \in Teams |-> << >>],
     !.currentQuestionIndex = [t \in Teams |-> 0],
     !.questionHistory = [t \in Teams |-> << >>],
     !.memberAnswers = [t \in Teams |-> EmptyMap]]

\* The value at gameState after update(roomRef, {gameState: {...}}): the object
\* replaces the whole node; it holds isStarted = false, isFinished = false and
\* empty maps, which the store does not keep, so every other key is absent
ResetGameState(gs) ==
  [ isStarted |-> FALSE,
    isFinished |-> FALSE,
    currentHeroId |-> [t \in Teams |-> NoHero],
    heroAnswer |-> [t \in Teams |-> Null],
    currentQuestionIndex |-> [t \in Teams |-> 0],
    questionHistory |-> [t \in Teams |-> << >>],
    heroHistory |-> [t \in Teams |-> << >>],
    individualScores |-> EmptyMap,
    memberAnswers |-> [t \in Teams |-> EmptyMap],
    roundCount |-> [t \in Teams |-> 0],
    resultRevealed |-> [t \in Teams |-> FALSE],
    resultRevealedAt |-> [t \in Teams |-> NoStamp] ]

\* "reset" button of the admin; await update(roomRef, {participants: null,
\* gameState: {...}}); an admin keeps its identity, anybody else is logged out
ResetRoom(c) ==
  /\ ops > 0
  /\ IsAdmin(c)
  /\ participants' = EmptyMap
  /\ gameState' = ResetGameState(gameState)
  /\ ops' = ops - 1
  /\ UNCHANGED <<currentUser, session, view, hasAnswered, pc, loc, nextId,
                 awards, config, error, returned, sessionExpired>>
  /\ UNCHANGED <<navigation, declined>>

\* ---- updateTeamCount, updateQuestions -------------------------------------------
TeamCounts == {MinTeams - 1, MinTeams, MinTeams + 1, MaxTeams, MaxTeams + 1}

\* newQuestions: the empty list or QuestionPool questions
QuestionLists == {<< >>} \cup [1..QuestionPool -> Texts]

\* !(newTeamCount < 2 || newTeamCount > 10)
ValidTeamCount(newTeamCount) == ~(newTeamCount < MinTeams \/ newTeamCount > MaxTeams)

\* !(newQuestions.length === 0)
ValidQuestions(newQuestions) == Len(newQuestions) # 0

\* The checks read the roomConfig and the gameState of the caller's last render;
\* await update(roomRef, {'config/teamCount': newTeamCount})
UpdateTeamCount(c, newTeamCount) ==
  /\ ops > 0
  /\ IsAdmin(c)
  /\ ops' = ops - 1
  /\ IF ~view[c].roomConfig
     THEN /\ returned' = [returned EXCEPT ![c] = "false"]
          /\ UNCHANGED <<config, error>>
     ELSE IF view[c].isStarted \/ view[c].isFinished
     THEN /\ error' = [error EXCEPT ![c] = "teamCountAfterStart"]
          /\ returned' = [returned EXCEPT ![c] = "false"]
          /\ UNCHANGED config
     ELSE IF ~ValidTeamCount(newTeamCount)
     THEN /\ error' = [error EXCEPT ![c] = "teamCountRange"]
          /\ returned' = [returned EXCEPT ![c] = "false"]
          /\ UNCHANGED config
     ELSE /\ config' = [config EXCEPT !.teamCount = newTeamCount]
          /\ returned' = [returned EXCEPT ![c] = "true"]
          /\ UNCHANGED error
  /\ UNCHANGED <<participants, gameState, currentUser, session, view, hasAnswered, pc, loc,
                 nextId, awards, sessionExpired>>
  /\ UNCHANGED <<navigation, declined>>

\* await update(roomRef, {'config/questions': newQuestions})
UpdateQuestions(c, newQuestions) ==
  /\ ops > 0
  /\ IsAdmin(c)
  /\ ops' = ops - 1
  /\ IF ~view[c].roomConfig
     THEN /\ returned' = [returned EXCEPT ![c] = "false"]
          /\ UNCHANGED <<config, error>>
     ELSE IF view[c].isStarted \/ view[c].isFinished
     THEN /\ error' = [error EXCEPT ![c] = "questionsAfterStart"]
          /\ returned' = [returned EXCEPT ![c] = "false"]
          /\ UNCHANGED config
     ELSE IF ~ValidQuestions(newQuestions)
     THEN /\ error' = [error EXCEPT ![c] = "questionsEmpty"]
          /\ returned' = [returned EXCEPT ![c] = "false"]
          /\ UNCHANGED config
     ELSE /\ config' = [config EXCEPT !.questions = newQuestions]
          /\ returned' = [returned EXCEPT ![c] = "true"]
          /\ UNCHANGED error
  /\ UNCHANGED <<participants, gameState, currentUser, session, view, hasAnswered, pc, loc,
                 nextId, awards, sessionExpired>>
  /\ UNCHANGED <<navigation, declined>>

\* ---- deleteRoom ----------------------------------------------------------------
\* "delete" button of the room list on the welcome screen; await remove(roomRef)
DeleteRoom(c) ==
  /\ ops > 0
  /\ ~InRoom(c)
  /\ RoomExists
  /\ participants' = EmptyMap
  /\ gameState' = initialGameState
  /\ config' = NoConfig
  /\ ops' = ops - 1
  /\ UNCHANGED <<currentUser, session, view, hasAnswered, pc, loc, nextId, awards,
                 error, returned, sessionExpired>>
  /\ UNCHANGED <<navigation, declined>>

\* ---- switchToAdmin -------------------------------------------------------------
\* a participant becomes an admin of the room; saveSession(currentRoomId, adminUser)
SwitchToAdmin(c) ==
  /\ ops > 0
  /\ IsParticipant(c)
  /\ currentUser' = [currentUser EXCEPT ![c] = AdminUser]
  /\ session' = [session EXCEPT ![c] = AdminUser]
  /\ sessionExpired' = [sessionExpired EXCEPT ![c] = FALSE]
  /\ ops' = ops - 1
  /\ UNCHANGED <<participants, gameState, view, hasAnswered, pc, loc, nextId, awards,
                 config, error, returned>>
  /\ UNCHANGED <<navigation, declined>>

\* ---- session (localStorage) and page load ------------------------------------------
\* The page is reloaded: the React state is initial again, localStorage is kept
Reload(c) ==
  /\ InRoom(c)
  /\ \A p \in Procs : loc[p].client # c
  /\ currentUser' = [currentUser EXCEPT ![c] = NoUser]
  /\ view' = [view EXCEPT ![c] = initialView]
  /\ hasAnswered' = [hasAnswered EXCEPT ![c] = FALSE]
  /\ error' = [error EXCEPT ![c] = Null]
  /\ returned' = [returned EXCEPT ![c] = Null]
  /\ UNCHANGED <<participants, gameState, session, pc, loc, nextId, ops, awards,
                 config, sessionExpired>>
  /\ UNCHANGED <<navigation, declined>>

\* Time passes: Date.now() - timestamp > 24 * 60 * 60 * 1000 from now on
SessionAges(c) ==
  /\ session[c] # NoUser
  /\ ~sessionExpired[c]
  /\ sessionExpired' = [sessionExpired EXCEPT ![c] = TRUE]
  /\ UNCHANGED <<participants, gameState, currentUser, session, view, hasAnswered, pc, loc,
                 nextId, ops, awards, config, error, returned>>
  /\ UNCHANGED <<navigation, declined>>

\* Variant: the age of the saved session is not looked at
SessionRejectedIfGone(expired, exists) == ~exists

\* restoreSession gives up on a session that is too old or whose room is gone
SessionRejected(expired, exists) == expired \/ ~exists

\* setCurrentRoomId(roomId); setCurrentUser(user); return true
Restored(c, p, user) ==
  /\ currentUser' = [currentUser EXCEPT ![c] = user]
  /\ returned' = [returned EXCEPT ![c] = "true"]
  /\ Finish(p)

\* The page has loaded (App's mount effect): localStorage.getItem, the age check,
\* await get(roomRef), and the admin branch
RestoreSessionRead(c, p) ==
  /\ Begin(p)
  /\ ~InRoom(c)
  /\ \A q \in Procs : loc[q].client # c
  /\ ops' = ops - 1
  /\ IF session[c] = NoUser
     THEN /\ returned' = [returned EXCEPT ![c] = "false"]
          /\ UNCHANGED <<currentUser, session, sessionExpired, pc, loc>>
     ELSE IF SessionRejected(sessionExpired[c], RoomExists)
     THEN /\ session' = [session EXCEPT ![c] = NoUser]
          /\ sessionExpired' = [sessionExpired EXCEPT ![c] = FALSE]
          /\ returned' = [returned EXCEPT ![c] = "false"]
          /\ UNCHANGED <<currentUser, pc, loc>>
     ELSE IF session[c] = AdminUser
     THEN /\ Restored(c, p, session[c])
          /\ UNCHANGED <<session, sessionExpired>>
     ELSE /\ loc' = [loc EXCEPT ![p] = [NoLoc EXCEPT
                       !.client = c, !.hero = session[c].id, !.team = session[c].team,
                       !.name = session[c].name, !.score = session[c].score]]
          /\ Goto(p, "restore_row")
          /\ UNCHANGED <<currentUser, session, sessionExpired, returned>>
  /\ UNCHANGED <<participants, gameState, view, hasAnswered, nextId, awards, config, error>>
  /\ UNCHANGED <<navigation, declined>>

\* the user parsed from the saved session
SavedUser(p) ==
  [id |-> loc[p].hero, team |-> loc[p].team, name |-> loc[p].name, score |-> loc[p].score]

\* await get(participantRef): restored as it is when the row exists
RestoreSessionReadRow(p) ==
  /\ pc[p] = "restore_row"
  /\ IF loc[p].hero \in DOMAIN participants
     THEN Restored(loc[p].client, p, SavedUser(p))
     ELSE Goto(p, "restore_setRow") /\ UNCHANGED <<currentUser, returned, loc>>
  /\ UNCHANGED <<participants, gameState, session, view, hasAnswered, nextId, ops, awards,
                 config, error, sessionExpired>>
  /\ UNCHANGED <<navigation, declined>>

\* await set(participantRef, user)
RestoreSessionSetRow(p) ==
  /\ pc[p] = "restore_setRow"
  /\ participants' = Put(participants, loc[p].hero,
        [team |-> loc[p].team, name |-> loc[p].name, score |-> loc[p].score])
  /\ awards' = IF loc[p].hero \in DOMAIN awards THEN awards
               ELSE Put(awards, loc[p].hero, [initial |-> 0, count |-> 0,
                                              team |-> loc[p].team, prev |-> NoId])
  /\ Goto(p, "restore_score")
  /\ UNCHANGED <<gameState, currentUser, session, view, hasAnswered, loc, nextId, ops,
                 config, error, returned, sessionExpired>>
  /\ UNCHANGED <<navigation, declined>>

\* await get(scoreRef): nothing more to write when the entry exists
RestoreSessionReadScore(p) ==
  /\ pc[p] = "restore_score"
  /\ IF loc[p].hero \in DOMAIN gameState.individualScores
     THEN Restored(loc[p].client, p, SavedUser(p))
     ELSE Goto(p, "restore_setScore") /\ UNCHANGED <<currentUser, returned, loc>>
  /\ UNCHANGED <<participants, gameState, session, view, hasAnswered, nextId, ops, awards,
                 config, error, sessionExpired>>
  /\ UNCHANGED <<navigation, declined>>

\* await set(scoreRef, 0)
RestoreSessionSetScore(p) ==
  /\ pc[p] = "restore_setScore"
  /\ gameState' = [gameState EXCEPT !.individualScores = Put(@, loc[p].hero, 0)]
  /\ Restored(loc[p].client, p, SavedUser(p))
  /\ UNCHANGED <<participants, session, view, hasAnswered, nextId, ops, awards,
                 config, error, sessionExpired>>
  /\ UNCHANGED <<navigation, declined>>

\* ---- the sampler, one iteration of its loop at a time ----------------------
\* generateQuestionHistory(totalQuestions) is entered: indices = [], used = {}
GenerateQuestionHistoryCall(p, totalQuestions) ==
  /\ Begin(p)
  /\ loc' = [loc EXCEPT ![p] = [NoLoc EXCEPT !.total = totalQuestions]]
  /\ Goto(p, "sample_loop")
  /\ ops' = ops - 1
  /\ UNCHANGED <<participants, gameState, currentUser, session, view, hasAnswered,
                 nextId, awards>>
  /\ UNCHANGED <<config, error, returned, sessionExpired, navigation, declined>>

SampleDrawUnchecked(p, idx) ==
  /\ pc[p] = "sample_loop"
  /\ Len(loc[p].history) < SampleSize /\ Len(loc[p].history) < loc[p].total
  /\ idx \in 0..(loc[p].total - 1)
  /\ loc' = [loc EXCEPT ![p].history = Append(@, idx)]
  /\ UNCHANGED <<participants, gameState, currentUser, session, view, hasAnswered,
                 pc, nextId, ops, awards>>
  /\ UNCHANGED <<config, error, returned, sessionExpired, navigation, declined>>

\* one iteration: idx = Math.floor(Math.random() * totalQuestions), pushed
\* unless it was drawn before
SampleDraw(p, idx) ==
  /\ pc[p] = "sample_loop"
  /\ Len(loc[p].history) < SampleSize /\ Len(loc[p].history) < loc[p].total
  /\ idx \in 0..(loc[p].total - 1)
  /\ loc' = [loc EXCEPT ![p].history =
               IF idx \in {@[i] : i \in 1..Len(@)} THEN @ ELSE Append(@, idx)]
  /\ UNCHANGED <<participants, gameState, currentUser, session, view, hasAnswered,
                 pc, nextId, ops, awards>>
  /\ UNCHANGED <<config, error, returned, sessionExpired, navigation, declined>>

\* the loop condition is false: return indices
SampleReturn(p) ==
  /\ pc[p] = "sample_loop"
  /\ ~(Len(loc[p].history) < SampleSize /\ Len(loc[p].history) < loc[p].total)
  /\ Goto(p, "sample_done")
  /\ UNCHANGED <<participants, gameState, currentUser, session, view, hasAnswered,
                 loc, nextId, ops, awards>>
  /\ UNCHANGED <<config, error, returned, sessionExpired, navigation, declined>>

\* ---- question navigation ---------------------------------------------------
\* the value JavaScript gives to x % 0
NaN == 0 - 1

\* JavaScript's %: the remainder has the sign of the dividend, and x % 0 is NaN
Rem(a, b) ==
  IF b = 0 THEN NaN
  ELSE IF a >= 0 THEN a % b ELSE 0 - ((0 - a) % b)

\* direction: 'next' | 'prev' | number
Step(kind) == [kind |-> kind, index |-> 0]

Pick(i) == [kind |-> "index", index |-> i]

NewIdxRelative(direction, currentIdx, length) ==
  IF direction.kind = "index" THEN Rem(currentIdx + direction.index, length)
  ELSE IF direction.kind = "next" THEN Rem(currentIdx + 1, length)
  ELSE Rem(currentIdx - 1 + length, length)

\* changeQuestion: newIdx
NewIdx(direction, currentIdx, length) ==
  IF direction.kind = "index" THEN direction.index
  ELSE IF direction.kind = "next" THEN Rem(currentIdx + 1, length)
  ELSE Rem(currentIdx - 1 + length, length)

\* The hero's question buttons (shown while !heroAnswer, one per entry of the
\* rendered questionHistory) and the 'next' / 'prev' calls of the hook;
\* set(questionIdxRef, newIdx) is not awaited, and set() refuses a NaN
ChangeQuestion(c, direction) ==
  /\ ops > 0
  /\ HeroScreen(c)
  /\ view[c].heroAnswer[currentUser[c].team] = Null
  /\ direction.kind = "index" =>
       direction.index < Len(view[c].questionHistory[currentUser[c].team])
  /\ LET team == currentUser[c].team
         newIdx == NewIdx(direction, view[c].currentQuestionIndex[team],
                          Len(view[c].questionHistory[team]))
     IN  IF newIdx = NaN
         THEN UNCHANGED gameState
         ELSE gameState' = [gameState EXCEPT !.currentQuestionIndex[team] = newIdx]
  /\ ops' = ops - 1
  /\ UNCHANGED <<participants, currentUser, session, view, hasAnswered, pc, loc, nextId, awards>>
  /\ UNCHANGED <<config, error, returned, sessionExpired>>
  /\ navigation' = [navigation EXCEPT ![currentUser[c].team] =
        [direction |-> direction,
         repeats |-> IF @.direction = direction THEN @.repeats + 1 ELSE 1]]
  /\ UNCHANGED declined

\* the config written by createRoom: two teams and a list of QuestionPool questions
initialConfig == [teamCount |-> Len(TeamOrder), questions |-> [i \in 1..QuestionPool |-> "q1"]]

\* ---- initial states -------------------------------------------------------------
\* A room as left by earlier play: rows ps, game state gs, clients logged in as
\* users (each with a fresh snapshot), all handlers idle.
SceneWith(ps, gs, users, budget, roomConfig) ==
  /\ participants = ps
  /\ gameState = gs
  /\ currentUser = users
  /\ session = [c \in Clients |-> IF users[c].id \in Ids THEN users[c] ELSE NoUser]
  /\ view = [c \in Clients |-> IF users[c] = NoUser THEN initialView ELSE Snapshot(ps, gs)]
  /\ hasAnswered = [c \in Clients |->
        /\ users[c].team \in Teams
        /\ users[c].id \in DOMAIN gs.memberAnswers[users[c].team]]
  /\ pc = [p \in Procs |-> "idle"]
  /\ loc = [p \in Procs |-> NoLoc]
  /\ nextId = 1 + Cardinality((DOMAIN gs.individualScores \cup DOMAIN ps
                                 \cup {users[c].id : c \in Clients}) \ {NoId, AdminId})
  /\ ops = budget
  /\ awards = [u \in DOMAIN gs.individualScores \cup DOMAIN ps |->
                 [initial |-> OrZero(gs.individualScores, u), count |-> 0,
                  team |-> IF u \in DOMAIN ps THEN ps[u].team ELSE Null,
                  prev |-> NoId]]
  /\ config = roomConfig
  /\ error = [c \in Clients |-> Null]
  /\ returned = [c \in Clients |-> Null]
  /\ sessionExpired = [c \in Clients |-> FALSE]
  /\ navigation = [t \in Teams |-> [direction |-> Step("none"), repeats |-> 0]]
  /\ declined = [t \in Teams |-> FALSE]

\* the same in a room that has the config createRoom wrote
Scene(ps, gs, users, budget) == SceneWith(ps, gs, users, budget, initialConfig)

\* a value the sampler can return
FirstSample == CHOOSE indices \in QuestionSamples : TRUE

Row(team, name) == [team |-> team, name |-> name, score |-> 0]

User(id, ps) == [id |-> id, team |-> ps[id].team, name |-> ps[id].name, score |-> ps[id].score]

\* Kim and Lee joined team T1, an admin started the game, Kim is the first hero;
\* the third browser has not logged in
DuoRows == <<Row("T1", "Kim"), Row("T1", "Lee")>>

DuoUsers == [c \in Clients |->
               IF c = "c1" THEN User(1, DuoRows)
               ELSE IF c = "c2" THEN User(2, DuoRows) ELSE NoUser]

DuoGame ==
  [initialGameState EXCEPT
     !.isStarted = TRUE,
     !.currentHeroId["T1"] = 1,
     !.heroHistory["T1"] = <<1>>,
     !.questionHistory["T1"] = FirstSample,
     !.individualScores = [u \in {1, 2} |-> 0]]

Playing == Scene(DuoRows, DuoGame, DuoUsers, MaxOps)

\* Kim, Lee and Park joined team T1 (Park's browser is closed); the admin is in
\* the room and Lee's browser has not logged in
TrioRows == <<Row("T1", "Kim"), Row("T1", "Lee"), Row("T1", "Park")>>

TrioUsers == [c \in Clients |->
                IF c = "c1" THEN User(1, TrioRows)
                ELSE IF c = "c2" THEN NoUser ELSE AdminUser]

\* the game has not been started yet
TrioLobby == [initialGameState EXCEPT !.individualScores = [u \in {1, 2, 3} |-> 0]]

Ready == Scene(TrioRows, TrioLobby, TrioUsers, MaxOps - 1)

\* seven rotations later: Lee and Kim have served three times, Park twice
TrioLate ==
  [initialGameState EXCEPT
     !.isStarted = TRUE,
     !.currentHeroId["T1"] = 1,
     !.heroHistory["T1"] = <<2, 1, 3, 2, 1, 3, 2, 1>>,
     !.questionHistory["T1"] = FirstSample,
     !.roundCount["T1"] = 7,
     !.individualScores = [u \in {1, 2, 3} |-> 0]]

NearCap == Scene(TrioRows, TrioLate, TrioUsers, MaxOps)

\* Two teams in their second and first round.  T1: Lee served first, Kim is the
\* hero, answered O, Lee guessed O and the result was revealed.  T2: Kim is the
\* hero.  The browsers are those of the two heroes and of Park.
TwoTeamRows ==
  <<Row("T1", "Kim"), Row("T1", "Lee"), Row("T1", "Park"), Row("T2", "Kim"), Row("T2", "Lee")>>

TwoTeamUsers == [c \in Clients |->
                   IF c = "c1" THEN User(1, TwoTeamRows)
                   ELSE IF c = "c2" THEN User(4, TwoTeamRows) ELSE User(3, TwoTeamRows)]

TwoTeamGame ==
  [initialGameState EXCEPT
     !.isStarted = TRUE,
     !.currentHeroId = [t \in Teams |-> IF t = "T1" THEN 1 ELSE 4],
     !.heroHistory = [t \in Teams |-> IF t = "T1" THEN <<2, 1>> ELSE <<4>>],
     !.questionHistory = [t \in Teams |-> FirstSample],
     !.roundCount["T1"] = 1,
     !.heroAnswer["T1"] = "O",
     !.memberAnswers["T1"] = [u \in {2} |-> "O"],
     !.resultRevealed["T1"] = TRUE,
     !.resultRevealedAt["T1"] = Stamp,
     !.individualScores = [u \in 1..5 |-> IF u = 2 THEN Points ELSE 0]]

TwoTeams == Scene(TwoTeamRows, TwoTeamGame, TwoTeamUsers, MaxOps)

\* The first round of the duo is under way: Kim answered O and Lee guessed O;
\* the result is not revealed yet
GuessedGame ==
  [DuoGame EXCEPT
     !.heroAnswer["T1"] = "O",
     !.memberAnswers["T1"] = [u \in {2} |-> "O"]]

Guessed == Scene(DuoRows, GuessedGame, DuoUsers, MaxOps - 2)

\* The same two teams watched by an admin: the browsers are those of the two
\* heroes and of the admin
WatchedUsers == [c \in Clients |->
                   IF c = "c1" THEN User(1, TwoTeamRows)
                   ELSE IF c = "c2" THEN User(4, TwoTeamRows) ELSE AdminUser]

Watched == Scene(TwoTeamRows, TwoTeamGame, WatchedUsers, MaxOps - 1)

\* A room that was reset and started again.  Lee (id 1) had joined before the
\* reset, which removed her row and her score entry; her browser stayed in the
\* room.  Kim (id 2) joined after the reset and is the hero of the game the
\* admin started then; Kim answered O and Lee guessed O.
RestartedRows == [n \in {2} |-> Row("T1", "Kim")]

RestartedUsers == [c \in Clients |->
                     IF c = "c1" THEN User(2, RestartedRows)
                     ELSE IF c = "c2" THEN [id |-> 1, team |-> "T1", name |-> "Lee", score |-> 0]
                     ELSE NoUser]

RestartedGame ==
  [initialGameState EXCEPT
     !.isStarted = TRUE,
     !.currentHeroId["T1"] = 2,
     !.heroHistory["T1"] = <<2>>,
     !.questionHistory["T1"] = FirstSample,
     !.heroAnswer["T1"] = "O",
     !.memberAnswers["T1"] = [u \in {1} |-> "O"],
     !.individualScores = [u \in {2} |-> 0]]

Restarted == Scene(RestartedRows, RestartedGame, RestartedUsers, MaxOps - 1)

\* ---- specifications -------------------------------------------------------------
\* The round of one team: the hero commits, members guess, the result is
\* revealed and scored, the team moves on.  Handlers of the two browsers, and
\* repeated handlers of one browser, overlap step by step.
InitPlay == Playing

NextPlay ==
  \/ \E c \in Clients : Sync(c)
  \/ \E c \in Clients, p \in Procs, answer \in Answers : SetHeroAnswerRead(c, p, answer)
  \/ \E p \in Procs : SetHeroAnswerUpdate(p)
  \/ \E c \in Clients, answer \in Answers : SubmitMemberAnswer(c, answer)
  \/ \E c \in Clients, p \in Procs : RevealReadHero(c, p)
  \/ \E p \in Procs : RevealReadAnswers(p)
  \/ \E p \in Procs, u \in Ids : TransactionRead(p, u)
  \/ \E p \in Procs, u \in Ids : TransactionCommit(p, u)
  \/ \E p \in Procs : RevealWriteFlag(p)
  \/ \E c \in Clients, p \in Procs : NextRoundRead(c, p)
  \/ \E p \in Procs : NextRoundUpdate(p)

SpecPlay == InitPlay /\ [][NextPlay]_vars

\* The same room with one operation at a time: an operation is started only
\* when no handler is in flight.  A third browser may join under any name.
Quiet == \A p \in Procs : pc[p] = "idle"

InitSeq == Playing

NextSeq ==
  \/ \E c \in Clients : Sync(c)
  \/ \E c \in Clients, p \in Procs, name \in Names, team \in Teams :
       Quiet /\ JoinRoomRead(c, p, name, team)
  \/ \E p \in Procs : JoinRoomRemoveRow(p)
  \/ \E p \in Procs : JoinRoomRemoveAnswer(p)
  \/ \E p \in Procs : JoinRoomSetRow(p)
  \/ \E p \in Procs : JoinRoomSetScore(p)
  \/ \E c \in Clients, p \in Procs, answer \in Answers :
       Quiet /\ SetHeroAnswerRead(c, p, answer)
  \/ \E p \in Procs : SetHeroAnswerUpdate(p)
  \/ \E c \in Clients, answer \in Answers : Quiet /\ SubmitMemberAnswer(c, answer)
  \/ \E c \in Clients, p \in Procs : Quiet /\ RevealReadHero(c, p)
  \/ \E p \in Procs : RevealReadAnswers(p)
  \/ \E p \in Procs, u \in Ids : TransactionRead(p, u)
  \/ \E p \in Procs, u \in Ids : TransactionCommit(p, u)
  \/ \E p \in Procs : RevealWriteFlag(p)

SpecSeq == InitSeq /\ [][NextSeq]_vars

\* Hero rotation on a fixed roster: the admin starts the game and skips heroes,
\* the team plays rounds (nobody guesses) and moves on.
InitRotation == Ready \/ NearCap

NextRotation ==
  \/ \E c \in Clients : Sync(c)
  \/ \E c \in Clients, p \in Procs : StartGameRead(c, p)
  \/ \E p \in Procs : StartGameUpdate(p)
  \/ \E c \in Clients, p \in Procs, answer \in Answers : SetHeroAnswerRead(c, p, answer)
  \/ \E p \in Procs : SetHeroAnswerUpdate(p)
  \/ \E c \in Clients, p \in Procs : RevealReadHero(c, p)
  \/ \E p \in Procs : RevealReadAnswers(p)
  \/ \E p \in Procs : RevealWriteFlag(p)
  \/ \E c \in Clients, p \in Procs : NextRoundRead(c, p)
  \/ \E p \in Procs : NextRoundUpdate(p)
  \/ \E c \in Clients, p \in Procs, team \in Teams : SkipToNextHeroRead(c, p, team)
  \/ \E p \in Procs : SkipToNextHeroUpdate(p)

SpecRotation == InitRotation /\ [][NextRotation]_vars

\* A changing roster: participants leave while their team moves on to the next
\* round, and every browser in the room runs the absent-hero reconciler.
InitRoster == TwoTeams

NextRoster ==
  \/ \E c \in Clients : Sync(c)
  \/ \E c \in Clients : LeaveRoom(c)
  \/ \E c \in Clients, p \in Procs : NextRoundRead(c, p)
  \/ \E p \in Procs : NextRoundUpdate(p)
  \/ \E c \in Clients, p \in Procs : CheckAndReplaceHero(c, p)
  \/ \E p \in Procs : CheckAndReplaceNext(p)

SpecRoster == InitRoster /\ [][NextRoster]_vars

\* The store delivers every snapshot, an armed timer fires and a handler that
\* awaits a store call is resumed; users press buttons only when they want to.
Delivery ==
  /\ WF_vars(\E c \in Clients : Sync(c))
  /\ WF_vars(\E c \in Clients, p \in Procs : CheckAndReplaceHero(c, p))
  /\ WF_vars(\E p \in Procs : CheckAndReplaceNext(p) \/ NextRoundUpdate(p))

InitLive == Scene(TwoTeamRows, TwoTeamGame, TwoTeamUsers, MaxOps - 2)

SpecLive == InitLive /\ [][NextRoster]_vars /\ Delivery

\* A reveal of the hero overlaps, step by step, with participants joining
\* (under a new name or under the name of a member who is in the room).
InitRejoin == Guessed

NextRejoin ==
  \/ \E c \in Clients : Sync(c)
  \/ \E c \in Clients, p \in Procs, name \in Names, team \in Teams :
       JoinRoomRead(c, p, name, team)
  \/ \E p \in Procs : JoinRoomRemoveRow(p)
  \/ \E p \in Procs : JoinRoomRemoveAnswer(p)
  \/ \E p \in Procs : JoinRoomSetRow(p)
  \/ \E p \in Procs : JoinRoomSetScore(p)
  \/ \E c \in Clients, p \in Procs : RevealReadHero(c, p)
  \/ \E p \in Procs : RevealReadAnswers(p)
  \/ \E p \in Procs, u \in Ids : TransactionRead(p, u)
  \/ \E p \in Procs, u \in Ids : TransactionCommit(p, u)
  \/ \E p \in Procs : RevealWriteFlag(p)

SpecRejoin == InitRejoin /\ [][NextRejoin]_vars

\* Members leave the room while the round they guessed in is revealed and the
\* team moves on.
InitDepart == Scene(DuoRows, GuessedGame, DuoUsers, MaxOps - 1)

NextDepart ==
  \/ \E c \in Clients : Sync(c)
  \/ \E c \in Clients : LeaveRoom(c)
  \/ \E c \in Clients, p \in Procs : RevealReadHero(c, p)
  \/ \E p \in Procs : RevealReadAnswers(p)
  \/ \E p \in Procs, u \in Ids : TransactionRead(p, u)
  \/ \E p \in Procs, u \in Ids : TransactionCommit(p, u)
  \/ \E p \in Procs : RevealWriteFlag(p)
  \/ \E c \in Clients, p \in Procs : NextRoundRead(c, p)
  \/ \E p \in Procs : NextRoundUpdate(p)

SpecDepart == InitDepart /\ [][NextDepart]_vars

\* The lobby before the game: participants join, under a new name or under the
\* name of somebody who is in the room, and leave (neither handler reads the
\* snapshot of its browser).
InitLobby == Scene(TrioRows, TrioLobby, TrioUsers, MaxOps - 1)

NextLobby ==
  \/ \E c \in Clients, p \in Procs, name \in Names, team \in Teams :
       JoinRoomRead(c, p, name, team)
  \/ \E p \in Procs : JoinRoomRemoveRow(p)
  \/ \E p \in Procs : JoinRoomRemoveAnswer(p)
  \/ \E p \in Procs : JoinRoomSetRow(p)
  \/ \E p \in Procs : JoinRoomSetScore(p)
  \/ \E c \in Clients : LeaveRoom(c)

SpecLobby == InitLobby /\ [][NextLobby]_vars

\* The admin ends or resets the room while the teams play on: a hero commits
\* an answer, a team moves on to its next round.
InitReset == Watched

NextReset ==
  \/ \E c \in Clients : Sync(c)
  \/ \E c \in Clients : ResetRoom(c)
  \/ \E c \in Clients : StopGame(c)
  \/ \E c \in Clients, p \in Procs, answer \in Answers : SetHeroAnswerRead(c, p, answer)
  \/ \E p \in Procs : SetHeroAnswerUpdate(p)
  \/ \E c \in Clients, p \in Procs : NextRoundRead(c, p)
  \/ \E p \in Procs : NextRoundUpdate(p)

SpecReset == InitReset /\ [][NextReset]_vars

\* The admin edits the config of the room, starts the game and ends it.
InitConfig == Ready

NextConfig ==
  \/ \E c \in Clients : Sync(c)
  \/ \E c \in Clients, newTeamCount \in TeamCounts : UpdateTeamCount(c, newTeamCount)
  \/ \E c \in Clients, newQuestions \in QuestionLists : UpdateQuestions(c, newQuestions)
  \/ \E c \in Clients, p \in Procs : StartGameRead(c, p)
  \/ \E p \in Procs : StartGameUpdate(p)
  \/ \E c \in Clients : StopGame(c)

SpecConfig == InitConfig /\ [][NextConfig]_vars

\* Browsers are reloaded and restore their session, possibly a day later or
\* after the room was deleted; a participant leaves or becomes an admin.
InitSession == Playing

NextSession ==
  \/ \E c \in Clients : Sync(c)
  \/ \E c \in Clients : SyncRoomGone(c)
  \/ \E c \in Clients : Reload(c)
  \/ \E c \in Clients : SessionAges(c)
  \/ \E c \in Clients : DeleteRoom(c)
  \/ \E c \in Clients : LeaveRoom(c)
  \/ \E c \in Clients : SwitchToAdmin(c)
  \/ \E c \in Clients, p \in Procs : RestoreSessionRead(c, p)
  \/ \E p \in Procs : RestoreSessionReadRow(p)
  \/ \E p \in Procs : RestoreSessionSetRow(p)
  \/ \E p \in Procs : RestoreSessionReadScore(p)
  \/ \E p \in Procs : RestoreSessionSetScore(p)

SpecSession == InitSession /\ [][NextSession]_vars

\* A participant whose row is gone reloads the page and restores the session
\* while the hero reveals the round.
InitRestore == Restarted

NextRestore ==
  \/ \E c \in Clients : Sync(c)
  \/ \E c \in Clients : Reload(c)
  \/ \E c \in Clients, p \in Procs : RestoreSessionRead(c, p)
  \/ \E p \in Procs : RestoreSessionReadRow(p)
  \/ \E p \in Procs : RestoreSessionSetRow(p)
  \/ \E p \in Procs : RestoreSessionReadScore(p)
  \/ \E p \in Procs : RestoreSessionSetScore(p)
  \/ \E c \in Clients, p \in Procs : RevealReadHero(c, p)
  \/ \E p \in Procs : RevealReadAnswers(p)
  \/ \E p \in Procs, u \in Ids : TransactionRead(p, u)
  \/ \E p \in Procs, u \in Ids : TransactionCommit(p, u)
  \/ \E p \in Procs : RevealWriteFlag(p)

SpecRestore == InitRestore /\ [][NextRestore]_vars

\* ---- properties -----------------------------------------------------------------
\* C1: no score increment is lost when reveals overlap: at every moment the
\* stored score of a participant is the score it was created with plus 100 for
\* each award transaction committed for it.
ScoresMatchAwards ==
  \A u \in DOMAIN gameState.individualScores :
     /\ u \in DOMAIN awards
     /\ gameState.individualScores[u] = awards[u].initial + 100 * awards[u].count

\* Two reveals are paying the same participant: one has committed its award,
\* the other computed its write from the score stored before that commit.
ConflictingAwards ==
  \E p \in Procs, q \in Procs, u \in Ids :
     /\ p # q
     /\ pc[p] = "reveal_scores" /\ pc[q] = "reveal_scores"
     /\ u \in loc[p].paid
     /\ u \in DOMAIN loc[q].txn
     /\ loc[q].txn[u] # TxnUnreadBase
     /\ loc[q].txn[u] # gameState.individualScores[u]

\* C2: a reveal that runs with no other writer adds exactly 100 to every
\* participant whose stored guess equals the hero answer, leaves every other
\* score as it was when the reveal began, and ends with resultRevealed true and
\* resultRevealedAt set.
SoloRevealScores ==
  [][\A p \in Procs : RevealWriteFlag(p) =>
       LET team == loc[p].team
           guesses == gameState.memberAnswers[team]
           matched == {u \in DOMAIN guesses : guesses[u] = gameState.heroAnswer[team]}
       IN  /\ gameState'.resultRevealed[team]
           /\ gameState'.resultRevealedAt[team] = Stamp
           /\ DOMAIN gameState'.individualScores = DOMAIN loc[p].before \cup matched
           /\ \A u \in DOMAIN gameState'.individualScores :
                gameState'.individualScores[u] =
                   OrZero(loc[p].before, u) + (IF u \in matched THEN 100 ELSE 0)
     ]_vars

\* A reveal has finished and the member whose guess matched holds 100 points
SoloRevealPaid ==
  /\ Quiet
  /\ gameState.resultRevealed["T1"]
  /\ \E u \in DOMAIN gameState.memberAnswers["T1"] :
       /\ gameState.memberAnswers["T1"][u] = gameState.heroAnswer["T1"]
       /\ gameState.individualScores[u] = 100

\* C3: a reveal writes resultRevealed = true only when every award it owes
\* (one per guess that matched when it read the guesses) has been committed.
FlagAfterAwards ==
  [][\A p \in Procs : RevealWriteFlag(p) =>
       /\ loc[p].paid = loc[p].winners
       /\ loc[p].txn = EmptyMap
       /\ gameState'.resultRevealed[loc[p].team]
     ]_vars

\* The flag is set and an award was committed before it
RevealedAfterAward ==
  /\ gameState.resultRevealed["T1"]
  /\ gameState.resultRevealedAt["T1"] = Stamp
  /\ \E u \in DOMAIN awards : awards[u].count > 0
  /\ \A p \in Procs : pc[p] # "reveal_scores"

\* C4: the write of setHeroAnswer stores the answer, resultRevealed = false,
\* resultRevealedAt = null and no guess for any member the call read, all in
\* the same step.
CommitResetsRound ==
  [][\A p \in Procs : SetHeroAnswerUpdate(p) =>
       LET team == loc[p].team
       IN  /\ gameState'.heroAnswer[team] = loc[p].answer
           /\ ~gameState'.resultRevealed[team]
           /\ gameState'.resultRevealedAt[team] = NoStamp
           /\ \A m \in loc[p].members : m \notin DOMAIN gameState'.memberAnswers[team]
     ]_vars

\* In the first round a member has guessed, and a later write of setHeroAnswer
\* removed the guess
GuessRemovedByCommit ==
  /\ gameState.roundCount["T1"] = 0
  /\ gameState.heroAnswer["T1"] # Null
  /\ hasAnswered["c2"]
  /\ DOMAIN gameState.memberAnswers["T1"] = {}
  /\ Quiet

\* C5: on a fixed roster the rotation is fair.  While some member is below the
\* cap of 3, no member has served more than one time more than another; and
\* the hero a rotation writes has served, in the history the rotation extends,
\* no more than any other candidate below the cap (for a skip the candidates
\* are the members other than the hero being skipped).
BalancedHistory(team) ==
  LET h == gameState.heroHistory[team]
      members == TeamMembers(participants, team)
  IN  (\E m \in members : Count(h, m) < 3) =>
         \A a \in members, b \in members : Count(h, a) <= Count(h, b) + 1

LeastServedPick(p, skipped) ==
  LET team == loc[p].team
      h == loc[p].history
      pick == gameState'.currentHeroId[team]
  IN  /\ gameState'.heroHistory[team] = Append(h, pick)
      /\ pick \in TeamMembers(participants, team) \ skipped
      /\ \A m \in TeamMembers(participants, team) \ skipped :
            Count(h, m) < 3 => Count(h, pick) <= Count(h, m)

FairRotation ==
  /\ [](\A team \in Teams : BalancedHistory(team))
  /\ [][\A p \in Procs :
          /\ NextRoundUpdate(p) => LeastServedPick(p, {})
          /\ SkipToNextHeroUpdate(p) => LeastServedPick(p, {loc[p].hero})
       ]_vars

\* A rotation has picked Park, the only member still below the cap
LastBelowCapPicked ==
  /\ Len(gameState.heroHistory["T1"]) = 9
  /\ gameState.currentHeroId["T1"] = 3
  /\ \A m \in {1, 2, 3} : Count(gameState.heroHistory["T1"], m) = 3

\* C6: the write of nextRound leaves the team with a hero who is a present
\* member, no hero answer, resultRevealed = false, resultRevealedAt = null, no
\* guesses, question index 0, a fresh question sample, and the hero as the
\* last entry of heroHistory.
NextRoundRound(p) ==
  LET team == loc[p].team
  IN  /\ gameState'.heroAnswer[team] = Null
      /\ ~gameState'.resultRevealed[team]
      /\ gameState'.resultRevealedAt[team] = NoStamp
      /\ DOMAIN gameState'.memberAnswers[team] = {}
      /\ gameState'.currentQuestionIndex[team] = 0
      /\ gameState'.questionHistory[team] \in QuestionSamples
      /\ gameState'.heroHistory[team] # << >>
      /\ gameState'.heroHistory[team][Len(gameState'.heroHistory[team])] =
            gameState'.currentHeroId[team]

NextRoundHeroPresent ==
  [][\A p \in Procs : NextRoundUpdate(p) =>
       /\ gameState'.currentHeroId[loc[p].team] \in TeamMembers(participants', loc[p].team)
       /\ NextRoundRound(p)
     ]_vars

\* C6, as the code has it: the hero is one of the members that were present
\* when the call read the participants; the rest as stated.
NextRoundHeroWasPresent ==
  [][\A p \in Procs : NextRoundUpdate(p) =>
       /\ gameState'.currentHeroId[loc[p].team] \in loc[p].members
       /\ NextRoundRound(p)
     ]_vars

\* Team T1 has moved on from its second round to Park
MovedOnToPark ==
  /\ gameState.roundCount["T1"] = 2
  /\ gameState.currentHeroId["T1"] = 3
  /\ gameState.heroHistory["T1"] = <<2, 1, 3>>
  /\ gameState.heroAnswer["T1"] = Null

\* C7: a skip applied to a team with at least two present members leaves a
\* hero different from the one stored immediately before the write.
SkipChangesHero ==
  [][\A p \in Procs :
       (SkipToNextHeroUpdate(p) /\ Cardinality(TeamMembers(participants, loc[p].team)) >= 2)
          => gameState'.currentHeroId[loc[p].team] # gameState.currentHeroId[loc[p].team]
     ]_vars

\* C8: a repair of the reconciler, made for a team whose hero is missing from
\* the roster of the snapshot it examined, sets the hero to a member of that
\* roster with the minimum count in that snapshot's heroHistory (the set the
\* rotation selector would choose from), stores a fresh question sample and
\* index 0, clears the hero answer, the guesses and the reveal state, and
\* leaves roundCount and individualScores as they are.
RepairWrite(team, roster, history) ==
  LET members == {i \in DOMAIN roster : roster[i] = team}
      hero == gameState'.currentHeroId[team]
      least == {m \in members : \A n \in members : Count(history, m) <= Count(history, n)}
  IN  /\ hero \in least
      /\ least = RotationCandidates(members, history)
      /\ gameState'.questionHistory[team] \in QuestionSamples
      /\ gameState'.currentQuestionIndex[team] = 0
      /\ gameState'.heroAnswer[team] = Null
      /\ DOMAIN gameState'.memberAnswers[team] = {}
      /\ ~gameState'.resultRevealed[team]
      /\ gameState'.resultRevealedAt[team] = NoStamp
      /\ gameState'.roundCount = gameState.roundCount
      /\ gameState'.individualScores = gameState.individualScores
      /\ gameState'.heroHistory = gameState.heroHistory

HeroLost(team) ==
  /\ gameState.isStarted /\ ~gameState.isFinished
  /\ gameState.currentHeroId[team] # NoHero
  /\ TeamMembers(participants, team) # {}
  /\ gameState.currentHeroId[team] \notin TeamMembers(participants, team)
  /\ \E c \in Clients : InRoom(c)

HeroRestored(team) ==
  \/ gameState.currentHeroId[team] \in TeamMembers(participants, team)
  \/ TeamMembers(participants, team) = {}
  \/ \A c \in Clients : ~InRoom(c)

LostHeroIsReplaced == \A team \in Teams : HeroLost(team) ~> HeroRestored(team)

\* The hero of T2 has left and Lee, the member who stayed, is the hero of the
\* round that was under way
LeeReplacedKim ==
  /\ 4 \notin DOMAIN participants
  /\ gameState.currentHeroId["T2"] = 5
  /\ gameState.roundCount["T2"] = 0
  /\ \E c \in Clients : InRoom(c)

\* C10: a join that finds a row with the same team and name ends with that
\* row and its guess removed and with the new row's score and the new
\* individualScores entry equal to the old id's individualScores entry (0 if it
\* had none); a join that finds no such row ends with both equal to 0.
JoinInheritsScore ==
  [][\A p \in Procs : JoinRoomSetScore(p) =>
       LET old == loc[p].dup
           new == loc[p].hero
           team == loc[p].team
           inherited == IF old # NoId /\ old \in DOMAIN gameState.individualScores
                        THEN gameState.individualScores[old] ELSE 0
       IN  /\ new \in DOMAIN participants'
           /\ participants'[new].team = team
           /\ participants'[new].name = loc[p].name
           /\ participants'[new].score = inherited
           /\ new \in DOMAIN gameState'.individualScores
           /\ gameState'.individualScores[new] = inherited
           /\ old # NoId =>
                /\ old \notin DOMAIN participants'
                /\ old \notin DOMAIN gameState'.memberAnswers[team]
     ]_vars

\* Lee's row was replaced by a new one that took over her 100 points
RejoinedWithPoints ==
  /\ Quiet
  /\ 2 \notin DOMAIN participants
  /\ \E n \in DOMAIN participants :
       /\ n > 2
       /\ participants[n].name = "Lee"
       /\ participants[n].score = 100
       /\ gameState.individualScores[n] = 100

\* C11: when a reveal and a join have both completed, the score entry of every
\* participant in the room includes the score its line of ids started with and
\* every +100 a reveal committed for its own id or for an id it replaced.
RECURSIVE Credited(_)
Credited(n) ==
  IF n = NoId \/ n \notin DOMAIN awards THEN 0
  ELSE awards[n].count + Credited(awards[n].prev)

RECURSIVE FirstScore(_)
FirstScore(n) ==
  IF awards[n].prev = NoId \/ awards[n].prev \notin DOMAIN awards THEN awards[n].initial
  ELSE FirstScore(awards[n].prev)

JoinKeepsCredits ==
  Quiet =>
    \A n \in DOMAIN participants :
       OrZero(gameState.individualScores, n) >= FirstScore(n) + 100 * Credited(n)

GuessesOfMembers ==
  /\ \A team \in Teams :
        DOMAIN gameState.memberAnswers[team] \subseteq TeamMembers(participants, team)
  /\ \A p \in Procs : pc[p] = "reveal_scores" => loc[p].winners \subseteq DOMAIN participants

\* C14: in every state of the store every id that has or has had a
\* participant row is a key of individualScores.
HadRow == {n \in DOMAIN awards : awards[n].team # Null} \cup DOMAIN participants

EveryRowHasScore == HadRow \subseteq DOMAIN gameState.individualScores

\* C14, as the code has it: every id that has or has had a row is a key of
\* individualScores unless the joinRoom call that wrote its row has not yet
\* written its score; and no step of a join or a leave removes a key.
ScoreWritePending(n) == \E p \in Procs : pc[p] = "join_setScore" /\ loc[p].hero = n

JoinedHaveScore ==
  /\ [](\A n \in HadRow : n \in DOMAIN gameState.individualScores \/ ScoreWritePending(n))
  /\ [][DOMAIN gameState.individualScores \subseteq DOMAIN gameState'.individualScores]_vars

\* Kim left and a newcomer took Lee's name: the ids 1 and 2 have no row any
\* more and still have their score entries, as has the newcomer
DepartedKeepScore ==
  /\ Quiet
  /\ DOMAIN participants = {3, 4}
  /\ {1, 2, 3, 4} \subseteq DOMAIN gameState.individualScores

\* C15: a leave removes the caller's own row from the store and clears the
\* caller's session and identity; the game state (scores, guesses, heroes,
\* histories, round counts), the other rows and the config stay as they were.
LeaveRemovesOwnRowOnly ==
  [][\A c \in Clients : LeaveRoom(c) =>
       /\ DOMAIN participants' = DOMAIN participants \ {currentUser[c].id}
       /\ \A n \in DOMAIN participants' : participants'[n] = participants[n]
       /\ gameState' = gameState
       /\ config' = config
       /\ session'[c] = NoUser
       /\ currentUser'[c] = NoUser
     ]_vars

\* Lee has left: her row is gone, her guess and her score entry are still stored
LeftGuessBehind ==
  /\ currentUser["c2"] = NoUser
  /\ session["c2"] = NoUser
  /\ 2 \notin DOMAIN participants
  /\ 2 \in DOMAIN gameState.memberAnswers["T1"]
  /\ 2 \in DOMAIN gameState.individualScores

\* C16: when a reset completes, the room still has its config, unchanged, no
\* participant rows, and a game state with no hero, hero answer, guesses,
\* question or hero history, scores, round counts or reveal flags, neither
\* started nor finished.
ResetClearsRoom ==
  [][\A c \in Clients : ResetRoom(c) =>
       /\ config' = config
       /\ config' # NoConfig
       /\ DOMAIN participants' = {}
       /\ ~gameState'.isStarted
       /\ ~gameState'.isFinished
       /\ DOMAIN gameState'.individualScores = {}
       /\ \A t \in Teams :
             /\ gameState'.currentHeroId[t] = NoHero
             /\ gameState'.heroAnswer[t] = Null
             /\ DOMAIN gameState'.memberAnswers[t] = {}
             /\ gameState'.questionHistory[t] = << >>
             /\ gameState'.heroHistory[t] = << >>
             /\ gameState'.roundCount[t] = 0
             /\ ~gameState'.resultRevealed[t]
             /\ gameState'.resultRevealedAt[t] = NoStamp
     ]_vars

\* The room that had five participants, scores and a revealed round is empty;
\* its config is the one it was created with
RoomWasReset ==
  /\ DOMAIN awards = 1..5
  /\ DOMAIN participants = {}
  /\ DOMAIN gameState.individualScores = {}
  /\ ~gameState.resultRevealed["T1"]
  /\ gameState.heroAnswer["T1"] = Null
  /\ config = initialConfig

\* C17: a call of updateTeamCount or updateQuestions made while the game of
\* the room is started or finished, or with an invalid argument, returns false
\* and writes nothing; and the config changes only while the game has not
\* started, and only to a valid value.
ConfigEditsGated ==
  [][/\ \A c \in Clients, n \in TeamCounts :
          (UpdateTeamCount(c, n) /\
             (gameState.isStarted \/ gameState.isFinished \/ n < 2 \/ n > 10))
          => (config' = config /\ returned'[c] = "false")
     /\ \A c \in Clients, q \in QuestionLists :
          (UpdateQuestions(c, q) /\
             (gameState.isStarted \/ gameState.isFinished \/ q = << >>))
          => (config' = config /\ returned'[c] = "false")
     /\ config' # config =>
          /\ ~gameState.isStarted /\ ~gameState.isFinished
          /\ config'.teamCount \in 2..10
          /\ config'.questions # << >>
    ]_vars

\* C18: a restore of a saved session that is more than 24 hours old, or whose
\* room is gone, returns false, removes the saved session, leaves the client
\* without a user and writes nothing to the store, then or later.
StaleSessionCleared ==
  [][\A c \in Clients, p \in Procs :
       (RestoreSessionRead(c, p) /\ session[c] # NoUser /\
          (sessionExpired[c] \/
             (config = NoConfig /\ DOMAIN participants = {} /\ gameState = initialGameState)))
       => /\ returned'[c] = "false"
          /\ session'[c] = NoUser
          /\ currentUser'[c] = NoUser
          /\ participants' = participants
          /\ gameState' = gameState
          /\ config' = config
          /\ pc'[p] = "idle"
     ]_vars

\* Lee's browser was reloaded a day later: the restore failed and the saved
\* session is gone, while her row is still in the room
ExpiredSessionCleared ==
  /\ returned["c2"] = "false"
  /\ session["c2"] = NoUser
  /\ currentUser["c2"] = NoUser
  /\ 2 \in DOMAIN participants

\* C19: a restore of an unexpired participant session whose room exists writes
\* nothing when the row is present; when it is absent it re-creates the row
\* from the saved user and writes the score 0 only if the id has no score
\* entry, so that no step of it removes or lowers a stored score, also when a
\* reveal credits the id meanwhile; and it ends with the client restored as
\* the saved user.
RestoreStep(p) ==
  \/ RestoreSessionReadRow(p)
  \/ RestoreSessionSetRow(p)
  \/ RestoreSessionReadScore(p)
  \/ RestoreSessionSetScore(p)

RestoreKeepsScore ==
  [][\A p \in Procs :
       LET id == loc[p].hero
           user == [id |-> id, team |-> loc[p].team, name |-> loc[p].name,
                    score |-> loc[p].score]
       IN  /\ (RestoreSessionReadRow(p) /\ id \in DOMAIN participants) =>
                /\ participants' = participants
                /\ gameState' = gameState
                /\ currentUser'[loc[p].client] = user
           /\ RestoreSessionSetRow(p) =>
                /\ id \notin DOMAIN participants
                /\ id \in DOMAIN participants'
                /\ participants'[id].team = user.team
                /\ participants'[id].name = user.name
           /\ RestoreSessionSetScore(p) =>
                /\ id \notin DOMAIN gameState.individualScores
                /\ gameState'.individualScores[id] = 0
           /\ RestoreStep(p) =>
                \A u \in DOMAIN gameState.individualScores :
                   /\ u \in DOMAIN gameState'.individualScores
                   /\ gameState'.individualScores[u] >= gameState.individualScores[u]
           /\ (RestoreStep(p) /\ pc'[p] = "idle") =>
                /\ currentUser'[loc[p].client] = user
                /\ returned'[loc[p].client] = "true"
     ]_vars

\* Kim, the hero of T1, has answered the question; Lee has not guessed yet
AskedGame == [DuoGame EXCEPT !.heroAnswer["T1"] = "O"]

Asked == Scene(DuoRows, AskedGame, DuoUsers, MaxOps)

\* A round in which writes to the database can be rejected.
InitRetry == Asked

NextRetry ==
  \/ \E c \in Clients : Sync(c)
  \/ \E c \in Clients, answer \in Answers : SubmitMemberAnswer(c, answer)
  \/ \E c \in Clients, p \in Procs, answer \in Answers : SubmitMemberAnswerRejected(c, p, answer)
  \/ \E p \in Procs : RetryAttemptSucceeds(p)
  \/ \E p \in Procs : RetryAttemptFails(p)
  \/ \E p \in Procs : RetryGivesUp(p)
  \/ \E c \in Clients, p \in Procs : RevealReadHero(c, p)
  \/ \E p \in Procs : RevealReadAnswers(p)
  \/ \E p \in Procs, u \in Ids : TransactionRead(p, u)
  \/ \E p \in Procs, u \in Ids : TransactionCommit(p, u)
  \/ \E p \in Procs : RevealWriteFlag(p)
  \/ \E p \in Procs : RevealWriteFlagFails(p)
  \/ \E c \in Clients, p \in Procs : NextRoundRead(c, p)
  \/ \E p \in Procs : NextRoundUpdate(p)
  \/ \E p \in Procs : NextRoundUpdateFails(p)
  \/ \E c \in Clients, p \in Procs, answer \in Answers : SetHeroAnswerRead(c, p, answer)
  \/ \E p \in Procs : SetHeroAnswerUpdate(p)
  \/ \E p \in Procs : SetHeroAnswerUpdateFails(p)

\* Every attempt of retryOperation settles, and the timer of its delay fires.
Settling ==
  \A p \in Procs :
     WF_vars(RetryAttemptSucceeds(p) \/ RetryAttemptFails(p) \/ RetryGivesUp(p))

SpecRetry == InitRetry /\ [][NextRetry]_vars /\ Settling

\* a write of setHeroAnswer, revealResult or nextRound is rejected
OtherWriteFails(p) ==
  SetHeroAnswerUpdateFails(p) \/ RevealWriteFlagFails(p) \/ NextRoundUpdateFails(p)

\* C20: submitMemberAnswer attempts the write of memberAnswers[team][userId] at
\* most 3 times and stops at the first attempt that succeeds; when all 3
\* attempts have failed it ends by surfacing an error and leaves the stored
\* guesses as they were; the call always comes to an end; a rejected write of another operation ends that
\* operation without another attempt.
SubmitRetriesBounded ==
  /\ [](\A p \in Procs : loc[p].attempts <= MaxRetries)
  /\ [][\A p \in Procs :
          /\ RetryAttemptSucceeds(p) =>
               /\ loc[p].attempts + 1 <= MaxRetries
               /\ gameState' = [gameState EXCEPT
                     !.memberAnswers[loc[p].team] = Put(@, loc[p].hero, loc[p].answer)]
               /\ pc'[p] = "idle"
               /\ error' = error
          /\ RetryAttemptFails(p) =>
               /\ loc'[p].attempts <= MaxRetries
               /\ gameState' = gameState
               /\ error' = error
          /\ RetryGivesUp(p) =>
               /\ loc[p].attempts = MaxRetries
               /\ gameState' = gameState
               /\ error'[loc[p].client] = "submitFailed"
               /\ pc'[p] = "idle"
          /\ OtherWriteFails(p) =>
               /\ gameState' = gameState
               /\ pc'[p] = "idle"
     ]_vars
  /\ \A p \in Procs : pc[p] = "submit_retry" ~> pc[p] = "idle"

\* a member's guess was rejected three times: the error is shown and no guess
\* of the member is stored
SubmitGaveUp ==
  \E c \in Clients :
     /\ error[c] = "submitFailed"
     /\ hasAnswered[c]
     /\ currentUser[c].team \in Teams
     /\ currentUser[c].id \notin DOMAIN gameState.memberAnswers[currentUser[c].team]

\* ---- question navigation: rooms with several questions ---------------------
QuizPool == 3

quizConfig == [teamCount |-> Len(TeamOrder), questions |-> [i \in 1..QuizPool |-> "q1"]]

\* a value the sampler can return in such a room
QuizSample == CHOOSE indices \in generateQuestionHistory(QuizPool) : TRUE

Directions == {Step("next"), Step("prev")} \cup {Pick(i) : i \in 0..(QuizPool - 1)}

\* Kim is the hero of T1 and has the game open in two tabs (the second one
\* restored from the saved session); Lee is the other member
QuizUsers == [c \in Clients |-> IF c = "c2" THEN User(2, DuoRows) ELSE User(1, DuoRows)]

QuizGame == [DuoGame EXCEPT !.questionHistory["T1"] = QuizSample]

Quiz == SceneWith(DuoRows, QuizGame, QuizUsers, MaxOps - 1, quizConfig)

InitQuiz == Quiz

NextQuiz ==
  \/ \E c \in Clients : Sync(c)
  \/ \E c \in Clients, direction \in Directions : ChangeQuestion(c, direction)
  \/ \E c \in Clients, p \in Procs, answer \in Answers : SetHeroAnswerRead(c, p, answer)
  \/ \E p \in Procs : SetHeroAnswerUpdate(p)

SpecQuiz == InitQuiz /\ [][NextQuiz]_vars

\* C21: a changeQuestion call changes currentQuestionIndex[team] only while
\* heroAnswer[team] is null in the store; once the hero's answer is committed
\* no changeQuestion call moves the index.
IndexFixedOnceAnswered ==
  [][\A c \in Clients, direction \in Directions :
       (/\ ChangeQuestion(c, direction)
        /\ gameState'.currentQuestionIndex # gameState.currentQuestionIndex)
       => gameState.heroAnswer[currentUser[c].team] = Null
    ]_vars

\* C22: changeQuestion with an explicit index is idempotent: a call with index
\* i stores i and nothing else, so after one or more calls in a row with the
\* same i the stored currentQuestionIndex[team] is i.
SamePickKeepsIndex ==
  /\ [](\A t \in Teams :
          navigation[t].direction.kind = "index" =>
             gameState.currentQuestionIndex[t] = navigation[t].direction.index)
  /\ [][\A c \in Clients, i \in 0..(QuizPool - 1) :
          ChangeQuestion(c, Pick(i)) =>
             gameState' = [gameState EXCEPT !.currentQuestionIndex[currentUser[c].team] = i]
       ]_vars

\* the same question button was pressed at least twice in a row
PickedTwice ==
  \E t \in Teams :
     /\ navigation[t].direction.kind = "index"
     /\ navigation[t].direction.index > 0
     /\ navigation[t].repeats >= 2
     /\ gameState.currentQuestionIndex[t] = navigation[t].direction.index

\* ---- the sampler on its own ------------------------------------------------
MaxPool == 10

Pools == 0..MaxPool

\* one call of the sampler, for any pool size
InitSampler == Scene(DuoRows, DuoGame, DuoUsers, 1)

NextSampler ==
  \/ \E p \in Procs, totalQuestions \in Pools : GenerateQuestionHistoryCall(p, totalQuestions)
  \/ \E p \in Procs, idx \in 0..(MaxPool - 1) : SampleDraw(p, idx)
  \/ \E p \in Procs : SampleReturn(p)

\* Math.random() does not avoid the unused indices for ever: an index that was
\* not drawn before is eventually drawn, and the loop exit is taken
FairDraws ==
  \A p \in Procs :
     /\ WF_vars(\E idx \in 0..(MaxPool - 1) : SampleDraw(p, idx) /\ loc'[p] # loc[p])
     /\ WF_vars(SampleReturn(p))

SpecSampler == InitSampler /\ [][NextSampler]_vars /\ FairDraws

\* C23: generateQuestionHistory(poolSize) terminates and returns exactly
\* min(4, poolSize) pairwise distinct indices, each in [0, poolSize), for every
\* poolSize >= 0.
SamplerContract ==
  /\ [](\A p \in Procs :
          pc[p] = "sample_done" =>
             LET indices == loc[p].history
                 poolSize == loc[p].total
             IN  /\ Len(indices) = IF poolSize < 4 THEN poolSize ELSE 4
                 /\ \A i, j \in 1..Len(indices) : i # j => indices[i] # indices[j]
                 /\ \A i \in 1..Len(indices) : indices[i] \in 0..(poolSize - 1)
                 /\ poolSize <= SampleSize => indices \in generateQuestionHistory(poolSize))
  /\ \A p \in Procs : pc[p] = "sample_loop" ~> pc[p] = "sample_done"

\* the sampler returned four indices out of a pool of ten questions
SampledFromTen ==
  \E p \in Procs :
     /\ pc[p] = "sample_done"
     /\ loc[p].total = 10
     /\ Len(loc[p].history) = 4

\* ---- a reveal that finds the round already reset ---------------------------
\* Kim is the hero of T1 and has answered, Lee has guessed; an admin watches
SupervisedUsers == [c \in Clients |->
                      IF c = "c1" THEN User(1, DuoRows)
                      ELSE IF c = "c2" THEN User(2, DuoRows) ELSE AdminUser]

Supervised == Scene(DuoRows, GuessedGame, SupervisedUsers, MaxOps - 1)

InitSupervised == Supervised

NextSupervised ==
  \/ \E c \in Clients : Sync(c)
  \/ \E c \in Clients, p \in Procs, team \in Teams : SkipToNextHeroRead(c, p, team)
  \/ \E p \in Procs : SkipToNextHeroUpdate(p)
  \/ \E c \in Clients, p \in Procs : RevealReadHero(c, p)
  \/ \E p \in Procs : RevealReadAnswers(p)
  \/ \E p \in Procs, u \in Ids : TransactionRead(p, u)
  \/ \E p \in Procs, u \in Ids : TransactionCommit(p, u)
  \/ \E p \in Procs : RevealWriteFlag(p)

SpecSupervised == InitSupervised /\ [][NextSupervised]_vars

\* C24: a revealResult(team) call that finds heroAnswer[team] null does
\* nothing: the store is left as it is (no score incremented, resultRevealed
\* and resultRevealedAt not written) and the call is over.
RevealWithoutAnswerIsNoOp ==
  [][\A c \in Clients, p \in Procs :
       (RevealReadHero(c, p) /\ gameState.heroAnswer[currentUser[c].team] = Null) =>
          /\ gameState' = gameState
          /\ participants' = participants
          /\ pc'[p] = "idle"
    ]_vars

\* a hero whose screen still showed the answered round pressed the reveal
\* button after the admin had skipped to the next hero
RevealDeclined ==
  /\ declined["T1"]
  /\ gameState.heroAnswer["T1"] = Null
  /\ ~gameState.resultRevealed["T1"]
  /\ \A p \in Procs : pc[p] = "idle"

\* ---- store calls that are rejected in the middle of an operation -----------
\* A join and a reveal whose last write can be rejected.
InitFailure == Guessed

NextFailure ==
  \/ \E c \in Clients, p \in Procs, name \in Names, team \in Teams :
       JoinRoomRead(c, p, name, team)
  \/ \E p \in Procs : JoinRoomRemoveRow(p)
  \/ \E p \in Procs : JoinRoomRemoveAnswer(p)
  \/ \E p \in Procs : JoinRoomSetRow(p)
  \/ \E p \in Procs : JoinRoomSetScore(p)
  \/ \E p \in Procs : JoinRoomSetScoreFails(p)
  \/ \E c \in Clients, p \in Procs : RevealReadHero(c, p)
  \/ \E p \in Procs : RevealReadAnswers(p)
  \/ \E p \in Procs, u \in Ids : TransactionRead(p, u)
  \/ \E p \in Procs, u \in Ids : TransactionCommit(p, u)
  \/ \E p \in Procs : RevealWriteFlag(p)
  \/ \E p \in Procs : RevealWriteFlagFails(p)

SpecFailure == InitFailure /\ [][NextFailure]_vars

\* C25: when a store call fails inside joinRoom or revealResult the failure is
\* shown to the user as an error and nothing the operation wrote stays in the
\* store: a failed join leaves neither its new row behind nor the duplicate's
\* row removed, a failed reveal leaves no winner's score raised.
FailureLeavesNoWrite ==
  [][\A p \in Procs :
       /\ (JoinRoomSetScoreFails(p) \/ RevealWriteFlagFails(p)) =>
            /\ error'[loc[p].client] # Null
            /\ pc'[p] = "idle"
       /\ JoinRoomSetScoreFails(p) =>
            /\ loc[p].hero \notin DOMAIN participants'
            /\ loc[p].dup # NoId => loc[p].dup \in DOMAIN participants'
       /\ RevealWriteFlagFails(p) =>
            \A u \in loc[p].winners :
               OrZero(gameState'.individualScores, u) = OrZero(loc[p].before, u)
    ]_vars

\* ---- a room deleted while its members play ---------------------------------
\* Kim and Lee play, Kim has answered; the third browser is on the entry
\* screen, where rooms are deleted.
InitDelete == Asked

NextDelete ==
  \/ \E c \in Clients : Sync(c)
  \/ \E c \in Clients : SyncRoomGone(c)
  \/ \E c \in Clients : DeleteRoom(c)
  \/ \E c \in Clients, answer \in Answers : SubmitMemberAnswer(c, answer)
  \/ \E c \in Clients, p \in Procs : RevealReadHero(c, p)
  \/ \E p \in Procs : RevealReadAnswers(p)
  \/ \E p \in Procs, u \in Ids : TransactionRead(p, u)
  \/ \E p \in Procs, u \in Ids : TransactionCommit(p, u)
  \/ \E p \in Procs : RevealWriteFlag(p)

\* The store delivers every snapshot and every awaited store call is answered;
\* users press buttons only when they want to.
Delivered ==
  /\ \A c \in Clients : WF_vars(Sync(c)) /\ WF_vars(SyncRoomGone(c))
  /\ \A p \in Procs :
        WF_vars(RevealReadAnswers(p) \/ RevealWriteFlag(p)
                \/ \E u \in Ids : TransactionRead(p, u) \/ TransactionCommit(p, u))

SpecDelete == InitDelete /\ [][NextDelete]_vars /\ Delivered

\* C26: once the room has been deleted every client ends up with no current
\* user (back on the entry screen) and with its local config, gameState and
\* participants at their initial values.
DeletedRoomEmptiesClients ==
  ~RoomExists ~> (\A c \in Clients : ~InRoom(c) /\ view[c] = initialView)

\* C27: whatever the interleaving of nextRound and skipToNextHero calls of
\* several clients, every rotation applied to the store raises
\* roundCount[team] by exactly 1 and extends heroHistory[team] by exactly one
\* id, the earlier history staying a prefix of the later one.
RotationsAccumulate ==
  [][\A p \in Procs :
       (NextRoundUpdate(p) \/ SkipToNextHeroUpdate(p)) =>
          LET team == loc[p].team
              before == gameState.heroHistory[team]
              after == gameState'.heroHistory[team]
          IN  /\ gameState'.roundCount[team] = gameState.roundCount[team] + 1
              /\ Len(after) = Len(before) + 1
              /\ SubSeq(after, 1, Len(before)) = before
    ]_vars

\* a step of nextRound, skipToNextHero or the absent-hero recovery that resets
\* the round of the team
RoundReset(team) ==
  \/ \E p \in Procs :
        /\ loc[p].team = team
        /\ NextRoundUpdate(p) \/ SkipToNextHeroUpdate(p) \/ CheckAndReplaceNext(p)
  \/ \E c \in Clients, p \in Procs : CheckAndReplaceHero(c, p)

\* C28: between two round resets a team's round only moves forward:
\* heroAnswer[team], once set, keeps its value and resultRevealed[team], once
\* true, stays true, in every step that is not a round reset by nextRound,
\* skipToNextHero or the absent-hero recovery.
RoundMovesForward ==
  [][\A team \in Teams :
       \/ RoundReset(team)
       \/ /\ gameState.heroAnswer[team] # Null =>
               gameState'.heroAnswer[team] = gameState.heroAnswer[team]
          /\ gameState.resultRevealed[team] => gameState'.resultRevealed[team]
    ]_vars

\* ---- question navigation while the admin resets the room -------------------
\* Kim, the hero of T1, chooses among three questions; Lee is the other
\* member and an admin watches.
InitQuizReset == SceneWith(DuoRows, QuizGame, SupervisedUsers, MaxOps - 1, quizConfig)

NextQuizReset ==
  \/ \E c \in Clients : Sync(c)
  \/ \E c \in Clients, direction \in Directions : ChangeQuestion(c, direction)
  \/ \E c \in Clients : ResetRoom(c)

SpecQuizReset == InitQuizReset /\ [][NextQuizReset]_vars

\* C29: in every reachable state currentQuestionIndex[team] is a valid index
\* into questionHistory[team]: a number in [0, length) when the list is not
\* empty, and 0 when it is empty.
IndexInRange ==
  \A team \in Teams :
     LET length == Len(gameState.questionHistory[team])
         index == gameState.currentQuestionIndex[team]
     IN  IF length = 0 THEN index = 0 ELSE index \in 0..(length - 1)

\* ---- teams of one ----------------------------------------------------------
\* Kim is alone in T1 and Lee alone in T2; an admin runs the game
SoloRows == <<Row("T1", "Kim"), Row("T2", "Lee")>>

SoloLobby == [initialGameState EXCEPT !.individualScores = [u \in {1, 2} |-> 0]]

SoloUsers == [c \in Clients |->
                IF c = "c1" THEN User(1, SoloRows)
                ELSE IF c = "c2" THEN User(2, SoloRows) ELSE AdminUser]

InitSolo == Scene(SoloRows, SoloLobby, SoloUsers, MaxOps)

NextSolo ==
  \/ \E c \in Clients : Sync(c)
  \/ \E c \in Clients, p \in Procs : StartGameRead(c, p)
  \/ \E p \in Procs : StartGameUpdate(p)
  \/ \E c \in Clients, p \in Procs, team \in Teams : SkipToNextHeroRead(c, p, team)
  \/ \E p \in Procs : SkipToNextHeroUpdate(p)

SpecSolo == InitSolo /\ [][NextSolo]_vars

\* C30: skipToNextHero(team) on a team whose only present member is the
\* current hero writes nothing: the call ends after reading the participants,
\* and hero, history, round count, questions, answers and reveal state of the
\* team stay as they are.
SoloSkipWritesNothing ==
  [][/\ \A c \in Clients, p \in Procs, team \in Teams :
          (/\ SkipToNextHeroRead(c, p, team)
           /\ TeamMembers(participants, team) = {gameState.currentHeroId[team]})
          => pc'[p] = "idle" /\ gameState' = gameState
     /\ \A p \in Procs :
          (/\ SkipToNextHeroUpdate(p)
           /\ TeamMembers(participants, loc[p].team) = {gameState.currentHeroId[loc[p].team]})
          => gameState' = gameState
    ]_vars

\* ---- the opening of a game ---------------------------------------------------
\* Kim and Lee wait in T1, nobody is in T2; the admin starts the game (once, or
\* with a second click before the new snapshot is rendered), the team begins
\* to play, a participant may leave.
InitOpening == Scene(DuoRows, SoloLobby, SupervisedUsers, MaxOps - 1)

NextOpening ==
  \/ \E c \in Clients : Sync(c)
  \/ \E c \in Clients, p \in Procs : StartGameRead(c, p)
  \/ \E p \in Procs : StartGameUpdate(p)
  \/ \E c \in Clients, p \in Procs, answer \in Answers : SetHeroAnswerRead(c, p, answer)
  \/ \E p \in Procs : SetHeroAnswerUpdate(p)
  \/ \E c \in Clients, answer \in Answers : SubmitMemberAnswer(c, answer)
  \/ \E c \in Clients : LeaveRoom(c)

SpecOpening == InitOpening /\ [][NextOpening]_vars

\* C31: when startGame's update is applied the game is started and not
\* finished; every team that had a participant when startGame read the room
\* has one of those participants as hero, a hero history of just that id, a
\* fresh sample of questions shown from index 0 and no recorded guess; a team
\* without participants has no hero and no questions.
StartGameStagesTeams ==
  [][\A p \in Procs : StartGameUpdate(p) =>
       /\ gameState'.isStarted /\ ~gameState'.isFinished
       /\ \A t \in Teams :
            LET members == {i \in DOMAIN loc[p].roster : loc[p].roster[i] = t}
            IN  IF members # {}
                THEN /\ gameState'.currentHeroId[t] \in members
                     /\ gameState'.heroHistory[t] = <<gameState'.currentHeroId[t]>>
                     /\ gameState'.questionHistory[t] \in QuestionSamples
                     /\ gameState'.currentQuestionIndex[t] = 0
                     /\ DOMAIN gameState'.memberAnswers[t] = {}
                ELSE /\ gameState'.currentHeroId[t] = NoHero
                     /\ gameState'.questionHistory[t] = << >>
    ]_vars

\* the game was started while T2 was empty: T1 has a hero who has just begun
\* to serve, T2 has neither hero nor questions
OpenedWithEmptyTeam ==
  /\ gameState.isStarted
  /\ gameState.currentHeroId["T1"] \in Ids
  /\ gameState.heroHistory["T1"] = <<gameState.currentHeroId["T1"]>>
  /\ gameState.questionHistory["T1"] \in QuestionSamples
  /\ gameState.currentHeroId["T2"] = NoHero
  /\ gameState.questionHistory["T2"] = << >>

\* ---- one round, revealed more than once -----------------------------------------
\* Kim answered O and Lee guessed O.  The result is revealed: by a double
\* click, or again after a reveal whose last write was rejected.  No rotation,
\* skip or recovery takes place, so every state belongs to the same round.
InitReveal == Scene(DuoRows, GuessedGame, DuoUsers, MaxOps - 1)

NextReveal ==
  \/ \E c \in Clients : Sync(c)
  \/ \E c \in Clients, p \in Procs : RevealReadHero(c, p)
  \/ \E p \in Procs : RevealReadAnswers(p)
  \/ \E p \in Procs, u \in Ids : TransactionRead(p, u)
  \/ \E p \in Procs, u \in Ids : TransactionCommit(p, u)
  \/ \E p \in Procs : RevealWriteFlag(p)
  \/ \E p \in Procs : RevealWriteFlagFails(p)

SpecReveal == InitReveal /\ [][NextReveal]_vars

\* C32: within one round no participant is credited more than once: the
\* scores, all 0 when the round began, never exceed one award of 100 points,
\* however often revealResult is invoked.
OneAwardPerRound ==
  \A u \in DOMAIN gameState.individualScores :
     gameState.individualScores[u] <= Points

\* C33: a revealed result belongs to a committed answer: whenever
\* resultRevealed[team] is true in the store, heroAnswer[team] is not null.
RevealedHasAnswer ==
  \A team \in Teams :
     gameState.resultRevealed[team] => gameState.heroAnswer[team] # Null

\* C34: the absent-hero recovery leaves a team alone whose stored hero is a
\* present member: a repair write changes neither that team's hero nor its
\* hero answer nor its members' guesses.
RecoverySparesPresentHero ==
  [][\A c \in Clients, p \in Procs :
        (CheckAndReplaceHero(c, p) \/ CheckAndReplaceNext(p)) =>
           \A team \in Teams :
              gameState.currentHeroId[team] \in TeamMembers(participants, team) =>
                 /\ gameState'.currentHeroId[team] = gameState.currentHeroId[team]
                 /\ gameState'.heroAnswer[team] = gameState.heroAnswer[team]
                 /\ gameState'.memberAnswers[team] = gameState.memberAnswers[team]
    ]_vars

\* ---- a team that was empty at the start ----------------------------------------
\* The game was started with Kim and Lee in T1 and nobody in T2.  The third
\* browser joins, under any name and into either team; every browser in the
\* room runs the absent-hero reconciler.
InitLateTeam == Scene(DuoRows, DuoGame, DuoUsers, MaxOps - 3)

NextLateTeam ==
  \/ \E c \in Clients : Sync(c)
  \/ \E c \in Clients, p \in Procs, name \in Names, team \in Teams :
       JoinRoomRead(c, p, name, team)
  \/ \E p \in Procs : JoinRoomRemoveRow(p)
  \/ \E p \in Procs : JoinRoomRemoveAnswer(p)
  \/ \E p \in Procs : JoinRoomSetRow(p)
  \/ \E p \in Procs : JoinRoomSetScore(p)
  \/ \E c \in Clients, p \in Procs : CheckAndReplaceHero(c, p)

\* The store delivers every snapshot, an armed timer fires and every awaited
\* store call of a join or a repair is answered.
Arrivals ==
  /\ \A c \in Clients : WF_vars(Sync(c))
  /\ WF_vars(\E c \in Clients, p \in Procs : CheckAndReplaceHero(c, p))
  /\ \A p \in Procs :
        WF_vars(JoinRoomRemoveRow(p) \/ JoinRoomRemoveAnswer(p)
                \/ JoinRoomSetRow(p) \/ JoinRoomSetScore(p))

SpecLateTeam == InitLateTeam /\ [][NextLateTeam]_vars /\ Arrivals

\* C35: while the game is active, a team with a present member eventually has
\* one of its present members as hero, also when its first member joined
\* after the start.
EveryTeamGetsHero ==
  \A team \in Teams :
     (/\ gameState.isStarted /\ ~gameState.isFinished
      /\ TeamMembers(participants, team) # {})
     ~> (gameState.currentHeroId[team] \in TeamMembers(participants, team))

\* C36: a room never holds two participant rows with the same team and name.
UniqueTeamAndName ==
  \A i \in DOMAIN participants, j \in DOMAIN participants :
     (participants[i].team = participants[j].team
        /\ participants[i].name = participants[j].name) => i = j

\* C37: a deleted room is not resurrected: whatever is stored under the
\* room's id belongs to a room record that has its config.
EveryRoomHasConfig == RoomExists => config # NoConfig

\* C38: the hero in office is on record: whenever currentHeroId[team] is set,
\* that id occurs in heroHistory[team].
HeroIsInHistory ==
  \A team \in Teams :
     gameState.currentHeroId[team] # NoHero =>
        Count(gameState.heroHistory[team], gameState.currentHeroId[team]) > 0

\* ---- the end of a game -----------------------------------------------------------
\* Kim answered O and Lee guessed O; the admin ends the game while Kim reveals
\* the result, before or after the admin's click.
InitClosing == Supervised

NextClosing ==
  \/ \E c \in Clients : Sync(c)
  \/ \E c \in Clients : StopGame(c)
  \/ \E c \in Clients, p \in Procs : RevealReadHero(c, p)
  \/ \E p \in Procs : RevealReadAnswers(p)
  \/ \E p \in Procs, u \in Ids : TransactionRead(p, u)
  \/ \E p \in Procs, u \in Ids : TransactionCommit(p, u)
  \/ \E p \in Procs : RevealWriteFlag(p)

SpecClosing == InitClosing /\ [][NextClosing]_vars

\* C39: the scores of a finished game are final: no step taken while
\* isFinished is true, and leaving it true, changes individualScores.
FinishedScoresAreFinal ==
  [][(gameState.isFinished /\ gameState'.isFinished) =>
        gameState'.individualScores = gameState.individualScores]_vars

\* ---- start, stop and reset ---------------------------------------------------------
\* Kim and Lee wait in T1; the admin starts, ends and resets the game, also
\* with a click made before the effect of the previous one is rendered.
InitFlags == Scene(DuoRows, SoloLobby, SupervisedUsers, MaxOps - 1)

NextFlags ==
  \/ \E c \in Clients : Sync(c)
  \/ \E c \in Clients, p \in Procs : StartGameRead(c, p)
  \/ \E p \in Procs : StartGameUpdate(p)
  \/ \E c \in Clients : StopGame(c)
  \/ \E c \in Clients : ResetRoom(c)

SpecFlags == InitFlags /\ [][NextFlags]_vars

\* C40: isStarted and isFinished are never both true in the store: every write
\* of one of the two flags writes the other one as well.
StartedOrFinished == ~(gameState.isStarted /\ gameState.isFinished)

\* the game was started and then ended
StoppedAfterStart ==
  /\ gameState.isFinished /\ ~gameState.isStarted
  /\ gameState.currentHeroId["T1"] \in Ids

====
